---- MODULE Spec2Model ----
(***************************************************************************)
(* A model of the data-analysis agent: the history ledger                  *)
(* (src/src/history_compressor.py), the schema digest                      *)
(* (src/src/schema_compressor.py) and the EDA agent (src/src/eda_agent.py).*)
(* Python strings are TLA+ strings, lists are sequences, None is the       *)
(* string "None" where a value may be absent.                              *)
(***************************************************************************)
EXTENDS Integers, Sequences, FiniteSets, TLC

VARIABLES
    max_steps_to_keep,  \* HistoryCompressor.max_steps_to_keep
    history,            \* HistoryCompressor.history: the recent AnalysisSteps
    archived_summary,   \* HistoryCompressor.archived_summary: list of strings
    clock,              \* the value the next datetime.now() returns
    log,                \* history variable: every step add_step created, in call order
    clears,             \* history variable: the number of clear_history calls so far
    df,                 \* EDAAgent.df: the table under analysis
    compressed_schema,  \* EDAAgent.compressed_schema
    current_step,       \* EDAAgent.current_step
    calls,              \* history variable: the number of analysis calls made on the agent
    op,                 \* the operation that returned last ("init" after construction)
    args,               \* the arguments it was called with
    ret                 \* what that operation returned or raised

ledger_vars == <<max_steps_to_keep, history, archived_summary, clock, log, clears>>
agent_vars == <<df, compressed_schema, current_step, calls>>
vars == <<max_steps_to_keep, history, archived_summary, clock, log, clears,
          df, compressed_schema, current_step, calls, op, args, ret>>

(***************************************************************************)
(* Bounds of the model.                                                    *)
(***************************************************************************)
MaxCapacity == 4    \* largest max_steps_to_keep a ledger is constructed with
MaxCalls == 5       \* add_step calls explored per ledger
MaxClears == 1      \* clear_history calls explored per ledger

None == "None"

Max(a, b) == IF a >= b THEN a ELSE b
Min(a, b) == IF a <= b THEN a ELSE b

(***************************************************************************)
(* Python helpers.                                                         *)
(***************************************************************************)
\* sep.join(parts)
RECURSIVE Join(_, _)
Join(parts, sep) ==
    IF parts = <<>> THEN ""
    ELSE IF Len(parts) = 1 THEN parts[1]
    ELSE parts[1] \o sep \o Join(Tail(parts), sep)

\* s[-n:]
LastNAll(s, n) == s
LastN(s, n) == SubSeq(s, Max(1, Len(s) - n + 1), Len(s))

\* s[:n]
FirstN(s, n) == SubSeq(s, 1, Min(n, Len(s)))

\* prefix order on lists
IsPrefix(s, t) == Len(s) <= Len(t) /\ SubSeq(t, 1, Len(s)) = s

(***************************************************************************)
(* Numbers.  The statistics of a column of small integers are rationals    *)
(* [n, d] with d > 0, compared by cross-multiplication; d = 0 stands for   *)
(* NaN, with which every comparison is false.  A square root is kept as    *)
(* the rational under the root and its sign.                               *)
(***************************************************************************)
Rat(n, d) == [n |-> n, d |-> d]
NaN == Rat(0, 0)
IsNaN(r) == r.d = 0
Abs(x) == IF x < 0 THEN -x ELSE x

RECURSIVE GCD(_, _)
GCD(a, b) == IF b = 0 THEN a ELSE GCD(b, a % b)

\* the same rational in lowest terms
Reduce(r) ==
    IF r.d = 0 THEN r
    ELSE LET g == GCD(Abs(r.n), r.d) IN Rat(r.n \div g, r.d \div g)

RatGT(a, b) == a.d # 0 /\ b.d # 0 /\ a.n * b.d > b.n * a.d
RatLT(a, b) == a.d # 0 /\ b.d # 0 /\ a.n * b.d < b.n * a.d
RatGE(a, b) == a.d # 0 /\ b.d # 0 /\ a.n * b.d >= b.n * a.d
RatSub(a, b) == IF a.d = 0 \/ b.d = 0 THEN NaN ELSE Reduce(Rat(a.n * b.d - b.n * a.d, a.d * b.d))
RatAdd(a, b) == IF a.d = 0 \/ b.d = 0 THEN NaN ELSE Reduce(Rat(a.n * b.d + b.n * a.d, a.d * b.d))
RatMul(a, b) ==
    IF a.d = 0 \/ b.d = 0 THEN NaN
    ELSE LET x == Reduce(Rat(a.n, b.d))
             y == Reduce(Rat(b.n, a.d))
         IN  Rat(x.n * y.n, x.d * y.d)

RECURSIVE Pow10(_)
Pow10(k) == IF k = 0 THEN 1 ELSE 10 * Pow10(k - 1)

\* the decimal digits of q >= 0, left-padded with zeros to at least width digits
RECURSIVE Digits(_, _)
Digits(q, width) ==
    IF q < 10 /\ width <= 1 THEN ToString(q)
    ELSE Digits(q \div 10, width - 1) \o ToString(q % 10)

\* the integer nearest to r >= 0, ties to the even one (a float format rounds so)
RoundHalfEven(r) ==
    LET q == r.n \div r.d
        rem == r.n % r.d
    IN  IF 2 * rem > r.d THEN q + 1
        ELSE IF 2 * rem = r.d THEN q + (q % 2)
        ELSE q

\* a count of 10^-dec units as a fixed-point numeral
Fixed(negative, units, dec) ==
    (IF negative THEN "-" ELSE "")
    \o ToString(units \div Pow10(dec)) \o "." \o Digits(units % Pow10(dec), dec)

\* f"{r:.<dec>f}"
FormatFixed(r, dec) ==
    IF IsNaN(r) THEN "nan"
    ELSE Fixed(r.n < 0, RoundHalfEven(Rat(Abs(r.n) * Pow10(dec), r.d)), dec)

\* f"{r:.1%}"
FormatPercent(r) ==
    IF IsNaN(r) THEN "nan%" ELSE FormatFixed(Rat(r.n * 100, r.d), 1) \o "%"

\* the largest integer whose square is at most x, 0 <= x < 2^30, by bisection
RECURSIVE ISqrtBetween(_, _, _)
ISqrtBetween(x, lo, hi) ==
    IF lo = hi THEN lo
    ELSE LET mid == (lo + hi + 1) \div 2
         IN  IF mid * mid <= x THEN ISqrtBetween(x, mid, hi)
             ELSE ISqrtBetween(x, lo, mid - 1)
ISqrt(x) == ISqrtBetween(x, 0, 32767)

\* floor((whole + rest / d) * f1 * f2 * ...) for the factors <<f1, f2, ...>>,
\* one factor at a time so that no intermediate product leaves 32 bits
RECURSIVE MulFloor(_, _, _, _)
MulFloor(whole, rest, d, factors) ==
    IF factors = <<>> THEN whole
    ELSE MulFloor(Head(factors) * whole + (Head(factors) * rest) \div d,
                  (Head(factors) * rest) % d, d, Tail(factors))

\* f"{v:.2f}" for v = sign * sqrt(sq), sq a rational >= 0: the hundredths k nearest
\* to 100 * sqrt(sq) satisfy (2k - 1)^2 <= 40000 * sq < (2k + 1)^2
FormatRoot2(negative, sq) ==
    IF IsNaN(sq) THEN "nan"
    ELSE LET q == Reduce(sq)
             scaled == MulFloor(q.n \div q.d, q.n % q.d, q.d, <<10, 10, 10, 10, 4>>)
         IN  Fixed(negative, (ISqrt(scaled) + 1) \div 2, 2)

(***************************************************************************)
(* add_step inputs.                                                        *)
(***************************************************************************)
Actions == {"statistics", "cleaning"}
Descriptions == {"Test step"}
InsightLists == {<<>>, <<"i1", "i2">>}
Codes == {None}

(***************************************************************************)
(* AnalysisStep and HistoryCompressor.                                     *)
(***************************************************************************)
AnalysisStep(step_number, action, description, insights, code, timestamp) ==
    [step_number |-> step_number, action |-> action, description |-> description,
     insights |-> insights, code |-> code, timestamp |-> timestamp]

\* add_step: step_number = len(self.history) + 1
StepNumber(h, a) == Len(h) + 1

\* add_step: if len(self.history) > self.max_steps_to_keep
ExceedsLimitLate(h, cap) == Len(h) > cap + 1
ExceedsLimitEarly(h, cap) == Len(h) >= cap
ExceedsLimit(h, cap) == Len(h) > cap

\* the summary entry _archive_old_steps builds for old_step
SummaryCommaJoined(old_step) ==
    "Step " \o ToString(old_step.step_number) \o " (" \o old_step.action \o "): "
    \o old_step.description \o ". "
    \o (IF old_step.insights # <<>>
        THEN "Insights: " \o Join(old_step.insights, ", ")
        ELSE "")
Summary(old_step) ==
    "Step " \o ToString(old_step.step_number) \o " (" \o old_step.action \o "): "
    \o old_step.description \o ". "
    \o (IF old_step.insights # <<>>
        THEN "Insights: " \o Join(old_step.insights, "; ")
        ELSE "")

\* _archive_old_steps: the lists after old_step = self.history.pop(0) and the append
ArchiveNewest(h, a) ==
    [history |-> SubSeq(h, 1, Len(h) - 1), archived_summary |-> Append(a, Summary(h[Len(h)]))]
ArchiveInFront(h, a) ==
    [history |-> Tail(h), archived_summary |-> <<Summary(Head(h))>> \o a]
ArchiveOldSteps(h, a) ==
    [history |-> Tail(h), archived_summary |-> Append(a, Summary(Head(h)))]

\* _extract_key_insights
RECURSIVE ExtractKeyInsights(_)
ExtractKeyInsights(h) ==
    IF h = <<>> THEN <<>> ELSE Head(h).insights \o ExtractKeyInsights(Tail(h))

\* get_context_for_next_step: the text of one recent step
StepText(step) ==
    step.action \o ": " \o step.description
    \o (IF step.insights # <<>> THEN " (Found: " \o step.insights[1] \o ")" ELSE "")

\* get_context_for_next_step: the items of its three sections
ContextArchived(a) == LastN(a, 3)
ContextRecent(h) == [i \in 1..Len(LastN(h, 3)) |-> StepText(LastN(h, 3)[i])]
ContextKeyInsightsOldest(h) == FirstN(ExtractKeyInsights(h), 3)
ContextKeyInsights(h) == LastN(ExtractKeyInsights(h), 3)

\* The string literals of history_compressor.py hold the characters U+0178,
\* U+2019, U+201C, U+201D and U+2020, which a string here cannot; they are
\* written Y, ', <, > and + (one character each, so that lengths are kept).

\* get_context_for_next_step
ContextForNextStep(h, a) ==
    Join(
        (IF a # <<>>
         THEN <<"Previous analysis (" \o ToString(Len(a)) \o " steps completed): "
                \o Join(ContextArchived(a), " â+' ")>>
         ELSE <<>>)
        \o (IF h # <<>> THEN <<"Recent: " \o Join(ContextRecent(h), " â+' ")>> ELSE <<>>)
        \o (IF ExtractKeyInsights(h) # <<>>
            THEN <<"Key findings: " \o Join(ContextKeyInsights(h), "; ")>>
            ELSE <<>>),
        " | ")

\* str.upper(), for the letters a to z
UpperChar(c) ==
    CASE c = "a" -> "A"  [] c = "b" -> "B"  [] c = "c" -> "C"  [] c = "d" -> "D"
      [] c = "e" -> "E"  [] c = "f" -> "F"  [] c = "g" -> "G"  [] c = "h" -> "H"
      [] c = "i" -> "I"  [] c = "j" -> "J"  [] c = "k" -> "K"  [] c = "l" -> "L"
      [] c = "m" -> "M"  [] c = "n" -> "N"  [] c = "o" -> "O"  [] c = "p" -> "P"
      [] c = "q" -> "Q"  [] c = "r" -> "R"  [] c = "s" -> "S"  [] c = "t" -> "T"
      [] c = "u" -> "U"  [] c = "v" -> "V"  [] c = "w" -> "W"  [] c = "x" -> "X"
      [] c = "y" -> "Y"  [] c = "z" -> "Z"
      [] OTHER -> c

\* str.upper
Upper(text) == Join([i \in 1..Len(text) |-> UpperChar(SubSeq(text, i, i))], "")

\* HistoryCompressor.to_text: the lines of one recent step
StepLines(step) ==
    <<"\nStep " \o ToString(step.step_number) \o ": " \o Upper(step.action),
      "  Description: " \o step.description>>
    \o (IF step.insights # <<>>
        THEN <<"  Insights:">>
             \o [i \in 1..Len(step.insights) |-> "    - " \o step.insights[i]]
        ELSE <<>>)

RECURSIVE AllStepLines(_)
AllStepLines(h) == IF h = <<>> THEN <<>> ELSE StepLines(Head(h)) \o AllStepLines(Tail(h))

\* HistoryCompressor.to_text
HistoryText(h, a) ==
    LET key_insights == LastN(ExtractKeyInsights(h), 5)
    IN  Join(<<"=== ANALYSIS HISTORY ===", "">>
             \o (IF a # <<>>
                 THEN <<"ðY<¦ ARCHIVED STEPS:">>
                      \o [i \in 1..Len(a) |-> "  â€¢ " \o a[i]]
                      \o <<"">>
                 ELSE <<>>)
             \o (IF h # <<>> THEN <<"ðY> RECENT STEPS:">> \o AllStepLines(h) ELSE <<>>)
             \o (IF key_insights # <<>>
                 THEN <<"\nðY'¡ KEY INSIGHTS SUMMARY:">>
                      \o [i \in 1..Len(key_insights) |->
                             "  " \o ToString(i) \o ". " \o key_insights[i]]
                 ELSE <<>>),
             "\n")

\* estimate_token_savings: the text of the recent steps kept in full
FullHistoryText(h) ==
    Join([i \in 1..Len(h) |->
            "Step " \o ToString(h[i].step_number) \o ": " \o h[i].action \o "\n"
            \o "Description: " \o h[i].description \o "\n"
            \o "Insights: " \o Join(h[i].insights, ", ") \o "\n"
            \o (IF h[i].code # None /\ h[i].code # ""
                THEN "Code:\n" \o h[i].code \o "\n" ELSE "")
            \o "\n"],
         "")

\* full_tokens / compressed_tokens if compressed_tokens > 0 else 0
SavingsRatio(full_tokens, compressed_tokens) ==
    IF compressed_tokens > 0 THEN Rat(full_tokens, compressed_tokens) ELSE Rat(0, 1)

\* estimate_token_savings
TokenSavings(h, a) ==
    LET full_tokens == Len(FullHistoryText(h)) \div 4
        compressed_tokens == Len(ContextForNextStep(h, a)) \div 4
    IN  [full_history_tokens |-> full_tokens,
         compressed_tokens |-> compressed_tokens,
         tokens_saved |-> full_tokens - compressed_tokens,
         compression_ratio |-> SavingsRatio(full_tokens, compressed_tokens)]

(***************************************************************************)
(* The ledger's operations.                                                *)
(***************************************************************************)
\* HistoryCompressor.add_step, with the _archive_old_steps call it makes
\* on a ledger given by its history, archived_summary, clock and log
AddStepTo(ledger, cap, action, description, insights, code) ==
    LET step == AnalysisStep(StepNumber(ledger.history, ledger.archived_summary), action,
                             description, insights, code, ledger.clock)
        appended == Append(ledger.history, step)
        after == IF ExceedsLimit(appended, cap)
                 THEN ArchiveOldSteps(appended, ledger.archived_summary)
                 ELSE [history |-> appended, archived_summary |-> ledger.archived_summary]
    IN  [history |-> after.history,
         archived_summary |-> after.archived_summary,
         clock |-> ledger.clock + 1,
         log |-> Append(ledger.log, step)]

\* the ledger as it stands
Ledger ==
    [history |-> history, archived_summary |-> archived_summary,
     clock |-> clock, log |-> log]

\* the ledger becomes the given one
SetLedger(ledger) ==
    /\ history' = ledger.history
    /\ archived_summary' = ledger.archived_summary
    /\ clock' = ledger.clock
    /\ log' = ledger.log
    /\ UNCHANGED <<max_steps_to_keep, clears>>

AddStepEffect(action, description, insights, code) ==
    SetLedger(AddStepTo(Ledger, max_steps_to_keep, action, description, insights, code))

AddStepUpTo(limit) ==
    /\ Len(log) < limit
    /\ \E action \in Actions, description \in Descriptions,
          insights \in InsightLists, code \in Codes :
            /\ AddStepEffect(action, description, insights, code)
            /\ args' = <<action, description, insights, code>>
    /\ op' = "add_step"
    /\ ret' = log'[Len(log')]
    /\ UNCHANGED agent_vars

AddStep == AddStepUpTo(MaxCalls)

\* HistoryCompressor.clear_history
ClearHistory ==
    /\ clears < MaxClears
    /\ history' = <<>>
    /\ archived_summary' = <<>>
    /\ clears' = clears + 1
    /\ op' = "clear_history"
    /\ args' = <<>>
    /\ ret' = None
    /\ UNCHANGED <<max_steps_to_keep, clock, log>>
    /\ UNCHANGED agent_vars

\* HistoryCompressor.get_context_for_next_step
GetContextForNextStep ==
    /\ op' = "get_context_for_next_step"
    /\ args' = <<>>
    /\ ret' = ContextForNextStep(history, archived_summary)
    /\ UNCHANGED <<ledger_vars, agent_vars>>

\* HistoryCompressor.estimate_token_savings
EstimateTokenSavings ==
    /\ op' = "estimate_token_savings"
    /\ args' = <<>>
    /\ ret' = TokenSavings(history, archived_summary)
    /\ UNCHANGED <<ledger_vars, agent_vars>>

\* AnalysisStep.to_dict; a timestamp is a reading of the clock, and its
\* isoformat() text is modelled by the decimal text of that reading
IsoFormat(timestamp) == ToString(timestamp)
ToDict(step) ==
    [step_number |-> step.step_number, action |-> step.action,
     description |-> step.description, insights |-> step.insights,
     code |-> step.code, timestamp |-> IsoFormat(step.timestamp)]

\* get_compressed_history
CompressedHistoryRecentOnly(h, a) ==
    [archived_count |-> Len(a),
     archived_summary |-> a,
     recent_steps |-> [i \in 1..Len(h) |-> ToDict(h[i])],
     total_steps |-> Len(h),
     key_insights |-> ExtractKeyInsights(h)]
CompressedHistory(h, a) ==
    [archived_count |-> Len(a),
     archived_summary |-> a,
     recent_steps |-> [i \in 1..Len(h) |-> ToDict(h[i])],
     total_steps |-> Len(a) + Len(h),
     key_insights |-> ExtractKeyInsights(h)]

\* HistoryCompressor.get_compressed_history
GetCompressedHistory ==
    /\ op' = "get_compressed_history"
    /\ args' = <<>>
    /\ ret' = CompressedHistory(history, archived_summary)
    /\ UNCHANGED <<ledger_vars, agent_vars>>

\* HistoryCompressor.to_text
HistoryToText ==
    /\ op' = "to_text"
    /\ args' = <<>>
    /\ ret' = HistoryText(history, archived_summary)
    /\ UNCHANGED <<ledger_vars, agent_vars>>

\* export_full_history: the data it serialises (the layout of the JSON text is
\* left out); export_timestamp is a reading of the clock
ExportData(h, a, now) ==
    [archived_summary |-> a,
     recent_steps |-> [i \in 1..Len(h) |-> ToDict(h[i])],
     export_timestamp |-> IsoFormat(now)]

\* HistoryCompressor.export_full_history
ExportFullHistoryClearing ==
    /\ op' = "export_full_history"
    /\ args' = <<>>
    /\ ret' = ExportData(history, archived_summary, clock)
    /\ history' = <<>>
    /\ archived_summary' = <<>>
    /\ UNCHANGED <<max_steps_to_keep, clock, log, clears, agent_vars>>
ExportFullHistory ==
    /\ op' = "export_full_history"
    /\ args' = <<>>
    /\ ret' = ExportData(history, archived_summary, clock)
    /\ UNCHANGED <<ledger_vars, agent_vars>>

\* HistoryCompressor.__init__
NewLedger(capacity) ==
    /\ max_steps_to_keep = capacity
    /\ history = <<>>
    /\ archived_summary = <<>>
    /\ clock = 0
    /\ log = <<>>
    /\ clears = 0

\* a ledger constructed with a positive max_steps_to_keep, owned by no agent
InitLedger ==
    /\ \E capacity \in 1..MaxCapacity : NewLedger(capacity)
    /\ df = <<>>
    /\ compressed_schema = <<>>
    /\ current_step = 0
    /\ calls = 0
    /\ op = "init"
    /\ args = <<>>
    /\ ret = None

NextLedger == AddStep \/ ClearHistory \/ GetContextForNextStep

SpecLedger == InitLedger /\ [][NextLedger]_vars

\* the ledger with its read operations
MaxReadCalls == 3    \* add_step calls explored between the read operations

NextReads ==
    \/ AddStepUpTo(MaxReadCalls)
    \/ ClearHistory
    \/ GetContextForNextStep
    \/ HistoryToText
    \/ GetCompressedHistory
    \/ ExportFullHistory
    \/ EstimateTokenSavings

SpecReads == InitLedger /\ [][NextReads]_vars

(***************************************************************************)
(* Tables.  A table (pandas DataFrame) is the sequence of its columns; a   *)
(* column has a name, a dtype and its cells in row order; a cell is <<>>   *)
(* when the value is missing (NaN/None) and <<v>> otherwise.  Numeric      *)
(* cells hold integers, object cells hold strings.                         *)
(***************************************************************************)
NA == <<>>
Col(name, dtype, cells) == [name |-> name, dtype |-> dtype, cells |-> cells]

\* len(df), len(df.columns), list(df.columns)
Rows(table) == IF table = <<>> THEN 0 ELSE Len(table[1].cells)
ColumnNames(table) == [i \in 1..Len(table) |-> table[i].name]
HasColumn(table, name) == \E i \in 1..Len(table) : table[i].name = name
Column(table, name) == table[CHOOSE i \in 1..Len(table) : table[i].name = name]

\* series.dropna(), series.isna().sum()
DropNA(cells) ==
    LET kept == SelectSeq(cells, LAMBDA c : c # NA)
    IN  [i \in 1..Len(kept) |-> kept[i][1]]
MissingCount(cells) == Len(cells) - Len(DropNA(cells))

\* series.nunique(): the number of distinct non-null values
ValueSet(xs) == {xs[i] : i \in 1..Len(xs)}
NUnique(cells) == Cardinality(ValueSet(DropNA(cells)))

\* pd.api.types.is_numeric_dtype
IsNumericDtype(dtype) == dtype \in {"int64", "float64"}

RECURSIVE SumSeq(_)
SumSeq(xs) == IF xs = <<>> THEN 0 ELSE Head(xs) + SumSeq(Tail(xs))

Sorted(xs) == SortSeq(xs, LAMBDA a, b : a < b)

\* series.quantile(num/den) with linear interpolation, xs non-empty
Quantile(xs, num, den) ==
    LET sorted == Sorted(xs)
        h == (Len(xs) - 1) * num
        lo == h \div den
        rem == h % den
    IN  IF rem = 0 THEN Rat(sorted[lo + 1], 1)
        ELSE Reduce(Rat(sorted[lo + 1] * den + rem * (sorted[lo + 2] - sorted[lo + 1]), den))

\* series.mean(), xs non-empty
Mean(xs) == Reduce(Rat(SumSeq(xs), Len(xs)))

\* the square of series.std() (sample standard deviation, ddof = 1)
SampleVariance(xs) ==
    LET n == Len(xs)
        S == SumSeq(xs)
        SS == SumSeq([i \in 1..n |-> xs[i] * xs[i]])
    IN  IF n < 2 THEN NaN ELSE Reduce(Rat(n * SS - S * S, n * (n - 1)))

SeqMin(xs) == CHOOSE v \in ValueSet(xs) : \A w \in ValueSet(xs) : v <= w
SeqMax(xs) == CHOOSE v \in ValueSet(xs) : \A w \in ValueSet(xs) : v >= w

(***************************************************************************)
(* SchemaCompressor.  A dict is a record; the ordered dict of the columns  *)
(* is the sequence of its [name, info] items.                              *)
(***************************************************************************)
MaxCategoricalSamples == 5
NoStats == <<>>     \* "stats": None

\* _get_numeric_stats
NumericStatsUnguarded(cells) ==
    LET non_null == DropNA(cells)
        n == Len(non_null)
    IN  [type |-> "numeric",
         stats |-> [mean |-> IF n = 0 THEN NaN ELSE Mean(non_null),
                    std |-> [sqrt |-> SampleVariance(non_null)],
                    min |-> IF n = 0 THEN NaN ELSE Rat(SeqMin(non_null), 1),
                    max |-> IF n = 0 THEN NaN ELSE Rat(SeqMax(non_null), 1),
                    median |-> IF n = 0 THEN NaN ELSE Quantile(non_null, 1, 2),
                    q25 |-> IF n = 0 THEN NaN ELSE Quantile(non_null, 1, 4),
                    q75 |-> IF n = 0 THEN NaN ELSE Quantile(non_null, 3, 4)],
         unique_count |-> NUnique(cells)]
NumericStats(cells) ==
    LET non_null == DropNA(cells)
    IN  IF Len(non_null) = 0
        THEN [type |-> "numeric", stats |-> NoStats]
        ELSE [type |-> "numeric",
              stats |-> [mean |-> Mean(non_null),
                         std |-> [sqrt |-> SampleVariance(non_null)],
                         min |-> Rat(SeqMin(non_null), 1),
                         max |-> Rat(SeqMax(non_null), 1),
                         median |-> Quantile(non_null, 1, 2),
                         q25 |-> Quantile(non_null, 1, 4),
                         q75 |-> Quantile(non_null, 3, 4)],
              unique_count |-> NUnique(cells)]

\* "high" if unique_count > 50 else "medium" if unique_count > 10 else "low"
CardinalityBucketInclusive(unique_count) ==
    IF unique_count >= 50 THEN "high" ELSE IF unique_count >= 10 THEN "medium" ELSE "low"
CardinalityBucket(unique_count) ==
    IF unique_count > 50 THEN "high" ELSE IF unique_count > 10 THEN "medium" ELSE "low"

\* series.value_counts().head(n): the n most frequent distinct non-null values
\* with their counts, most frequent first, equally frequent ones in order of first
\* appearance
ValueCountsHead(cells, n) ==
    LET xs == DropNA(cells)
        values == ValueSet(xs)
        count == [v \in values |-> Cardinality({i \in 1..Len(xs) : xs[i] = v})]
        first == [v \in values |-> CHOOSE i \in 1..Len(xs) :
                                      xs[i] = v /\ \A j \in 1..(i - 1) : xs[j] # v]
        rank == [v \in values |->
                    1 + Cardinality({w \in values :
                            \/ count[w] > count[v]
                            \/ count[w] = count[v] /\ first[w] < first[v]})]
    IN  [k \in 1..Min(n, Cardinality(values)) |->
            LET v == CHOOSE w \in values : rank[w] = k
            IN  [value |-> v, count |-> count[v]]]

\* _get_categorical_stats
CategoricalStats(cells) ==
    LET unique_count == NUnique(cells)
        value_counts == ValueCountsHead(cells, MaxCategoricalSamples)
        stats == [type |-> "categorical",
                  unique_count |-> unique_count,
                  cardinality |-> CardinalityBucket(unique_count)]
    IN  IF unique_count <= MaxCategoricalSamples
        THEN stats @@ [top_values |-> value_counts]
        ELSE stats @@ [sample_values |->
                          [k \in 1..Len(value_counts) |-> value_counts[k].value]]

\* series.isna().sum() / len(series): NaN for a column without rows
MissingRatio(cells) ==
    IF Len(cells) = 0 THEN NaN ELSE Rat(MissingCount(cells), Len(cells))

\* _compress_column
CompressColumn(col) ==
    [dtype |-> col.dtype,
     missing_ratio |-> MissingRatio(col.cells),
     missing_count |-> MissingCount(col.cells)]
    @@ (IF IsNumericDtype(col.dtype)
        THEN NumericStats(col.cells)
        ELSE CategoricalStats(col.cells))

\* df.memory_usage(deep=True).sum(): 128 bytes for the default index, 8 bytes per
\* numeric cell, and per object cell its 8-byte pointer and the object it points
\* to (49 bytes and one per character for a str, 24 for the float NaN)
MemoryUsageBytes(table) ==
    128 + SumSeq([i \in 1..Len(table) |->
                    IF IsNumericDtype(table[i].dtype) THEN 8 * Len(table[i].cells)
                    ELSE SumSeq([j \in 1..Len(table[i].cells) |->
                                    IF table[i].cells[j] = NA THEN 8 + 24
                                    ELSE 8 + 49 + Len(table[i].cells[j][1])])])

\* compress
CompressReversed(table) ==
    [shape |-> [rows |-> Rows(table), columns |-> Len(table)],
     columns |-> [k \in 1..Len(table) |->
                    LET col == table[Len(table) + 1 - k]
                    IN  [name |-> col.name, info |-> CompressColumn(col)]],
     memory_usage_mb |-> Rat(MemoryUsageBytes(table), 1024 * 1024)]
Compress(table) ==
    [shape |-> [rows |-> Rows(table), columns |-> Len(table)],
     columns |-> [i \in 1..Len(table) |-> [name |-> table[i].name, info |-> CompressColumn(table[i])]],
     memory_usage_mb |-> Rat(MemoryUsageBytes(table), 1024 * 1024)]

\* to_text: the lines one column adds
ColumnText(name, info) ==
    <<"\n[" \o name \o "]",
      "  Type: " \o info.type \o " (" \o info.dtype \o ")",
      "  Missing: " \o FormatPercent(info.missing_ratio)
          \o " (" \o ToString(info.missing_count) \o " values)">>
    \o (IF info.type = "numeric"
        THEN IF info.stats # NoStats
             THEN <<"  Range: [" \o FormatFixed(info.stats.min, 2) \o ", "
                        \o FormatFixed(info.stats.max, 2) \o "]",
                    "  Mean ± Std: " \o FormatFixed(info.stats.mean, 2) \o " ± "
                        \o FormatRoot2(FALSE, info.stats.std.sqrt),
                    "  Median: " \o FormatFixed(info.stats.median, 2),
                    "  Unique: " \o ToString(info.unique_count)>>
             ELSE <<>>
        ELSE <<"  Cardinality: " \o info.cardinality
                   \o " (" \o ToString(info.unique_count) \o " unique)">>
             \o (IF "top_values" \in DOMAIN info
                 THEN <<"  Values: "
                        \o Join([k \in 1..Len(info.top_values) |-> info.top_values[k].value],
                                ", ")>>
                 ELSE IF "sample_values" \in DOMAIN info
                 THEN <<"  Sample: " \o Join(FirstN(info.sample_values, 3), ", ") \o "...">>
                 ELSE <<>>))

RECURSIVE AllColumnText(_)
AllColumnText(items) ==
    IF items = <<>> THEN <<>>
    ELSE ColumnText(Head(items).name, Head(items).info) \o AllColumnText(Tail(items))

\* SchemaCompressor.to_text
ToText(schema) ==
    Join(<<"=== DATASET SCHEMA ===",
           "Shape: " \o ToString(schema.shape.rows) \o " rows × "
               \o ToString(schema.shape.columns) \o " columns",
           "Memory: " \o FormatFixed(schema.memory_usage_mb, 2) \o " MB",
           "",
           "=== COLUMNS ===">>
         \o AllColumnText(schema.columns),
         "\n")

\* df.head(100).to_string(): how one cell prints (the float cells of the tables
\* explored hold whole numbers)
CellText(dtype, cell) ==
    IF cell = NA THEN "NaN"
    ELSE IF dtype = "float64" THEN ToString(cell[1]) \o ".0"
    ELSE IF dtype = "int64" THEN ToString(cell[1])
    ELSE cell[1]

\* len(df.head(100).to_string()): a header line and one line per row, each the
\* index column followed by every column right-justified to its widest text and
\* set off by two spaces; a frame without rows prints its column names only
SampleTextLen(table) ==
    LET n == Min(Rows(table), 100)
        width(col) ==
            LET lens == {Len(col.name)}
                        \cup {Len(CellText(col.dtype, col.cells[j])) : j \in 1..n}
            IN  CHOOSE w \in lens : \A v \in lens : w >= v
        line == Len(ToString(n - 1)) + SumSeq([i \in 1..Len(table) |-> 2 + width(table[i])])
    IN  IF n = 0
        THEN Len("Empty DataFrame\nColumns: [" \o Join(ColumnNames(table), ", ")
                 \o "]\nIndex: []")
        ELSE (n + 1) * line + n

\* full_dataset_tokens / schema_tokens if schema_tokens > 0 else 0
ReductionRatio(full_dataset_tokens, schema_tokens) ==
    IF schema_tokens > 0 THEN Rat(full_dataset_tokens, schema_tokens) ELSE Rat(0, 1)

\* SchemaCompressor.estimate_token_reduction
TokenReduction(table) ==
    LET schema_tokens == Len(ToText(Compress(table))) \div 4
        full_dataset_tokens == (SampleTextLen(table) * Rows(table)) \div (100 * 4)
    IN  [schema_tokens |-> schema_tokens,
         estimated_full_tokens |-> full_dataset_tokens,
         reduction_ratio |-> ReductionRatio(full_dataset_tokens, schema_tokens),
         tokens_saved |-> full_dataset_tokens - schema_tokens]

(***************************************************************************)
(* EDAAgent.suggest_next_steps.                                            *)
(***************************************************************************)
\* if col_info["missing_ratio"] > 0.1
MissingRuleInclusive(info) == RatGE(info.missing_ratio, Rat(1, 10))
MissingRule(info) == RatGT(info.missing_ratio, Rat(1, 10))

\* if col_info["type"] == "numeric" and col_info["stats"]
HasNumericStats(info) == info.type = "numeric" /\ info.stats # NoStats

\* the IQR-based heuristic on the digest's stats
OutlierRule(stats) ==
    LET iqr == RatSub(stats.q75, stats.q25)
        lower_bound == RatSub(stats.q25, RatMul(Rat(3, 2), iqr))
        upper_bound == RatAdd(stats.q75, RatMul(Rat(3, 2), iqr))
    IN  /\ RatGT(iqr, Rat(0, 1))
        /\ RatLT(stats.min, lower_bound) \/ RatGT(stats.max, upper_bound)

\* stats["mean"] > stats["median"] * 1.5 or stats["mean"] < stats["median"] * 0.67
SkewRule(stats) ==
    \/ RatGT(stats.mean, RatMul(stats.median, Rat(3, 2)))
    \/ RatLT(stats.mean, RatMul(stats.median, Rat(67, 100)))

\* if col_info["type"] == "categorical": if col_info["cardinality"] == "high"
HighCardinalityRule(info) == info.type = "categorical" /\ info.cardinality = "high"

MissingSuggestion(name, info) ==
    "Investigate missing values in '" \o name \o "' ("
    \o FormatPercent(info.missing_ratio) \o " missing)"
OutlierSuggestion(name) == "Analyze potential outliers in '" \o name \o "'"
SkewSuggestion(name) == "Examine distribution skewness in '" \o name \o "'"
CardinalitySuggestion(name, info) ==
    "Analyze high cardinality in '" \o name \o "' ("
    \o ToString(info.unique_count) \o " unique values)"
CorrelationSuggestion == "Explore correlations between numeric features"

\* one iteration of the loop over compressed_schema["columns"].items()
ColumnSuggestions(name, info) ==
    (IF MissingRule(info) THEN <<MissingSuggestion(name, info)>> ELSE <<>>)
    \o (IF HasNumericStats(info) /\ OutlierRule(info.stats)
        THEN <<OutlierSuggestion(name)>> ELSE <<>>)
    \o (IF HasNumericStats(info) /\ SkewRule(info.stats)
        THEN <<SkewSuggestion(name)>> ELSE <<>>)
    \o (IF HighCardinalityRule(info) THEN <<CardinalitySuggestion(name, info)>> ELSE <<>>)

RECURSIVE AllColumnSuggestions(_)
AllColumnSuggestions(items) ==
    IF items = <<>> THEN <<>>
    ELSE ColumnSuggestions(Head(items).name, Head(items).info)
         \o AllColumnSuggestions(Tail(items))

\* [col for col, info in compressed_schema["columns"].items() if info["type"] == "numeric"]
NumericColsWithStats(schema) ==
    LET numeric == SelectSeq(schema.columns, LAMBDA item : HasNumericStats(item.info))
    IN  [i \in 1..Len(numeric) |-> numeric[i].name]
NumericCols(schema) ==
    LET numeric == SelectSeq(schema.columns, LAMBDA item : item.info.type = "numeric")
    IN  [i \in 1..Len(numeric) |-> numeric[i].name]

\* the suggestions list before "return suggestions[:5]"
GeneratedSuggestions(schema) ==
    AllColumnSuggestions(schema.columns)
    \o (IF Len(NumericCols(schema)) >= 2 THEN <<CorrelationSuggestion>> ELSE <<>>)

InitialSuggestions ==
    <<"Examine basic statistics and data distribution",
      "Check for missing values and data quality issues",
      "Identify column types and potential features">>

\* suggestions[:5]
LimitSuggestionsLast(suggestions) == LastN(suggestions, 5)
LimitSuggestions(suggestions) == FirstN(suggestions, 5)

\* suggest_next_steps
SuggestNextStepsAlways(schema, step) == LimitSuggestions(GeneratedSuggestions(schema))
SuggestNextSteps(schema, step) ==
    IF step = 0 THEN InitialSuggestions
    ELSE LimitSuggestions(GeneratedSuggestions(schema))

(***************************************************************************)
(* The statistics the analyses compute.  A value sign * sqrt(sq) is the    *)
(* record [neg, sq]; sq is NaN when the value is NaN.                      *)
(***************************************************************************)
Root(neg, sq) == [neg |-> neg, sq |-> sq]
RootNaN == Root(FALSE, NaN)

\* abs(v) > k and abs(v) >= t, for an integer k >= 0 and a rational t >= 0
AbsGT(v, k) == RatGT(v.sq, Rat(k * k, 1))
AbsGE(v, t) == RatGE(v.sq, RatMul(t, t))

RECURSIVE GCDSeq(_)
GCDSeq(xs) == IF xs = <<>> THEN 0 ELSE GCD(Abs(Head(xs)), GCDSeq(Tail(xs)))

\* series.skew(): NaN for fewer than 3 values, 0 for a constant series, else
\* n * sqrt(n - 1) / (n - 2) * m3 / m2^1.5 over the deviations from the mean
\* (taken here as the integers n * x - sum(x) divided by their common factor)
Skewness(xs) ==
    LET n == Len(xs)
        S == SumSeq(xs)
        g == GCDSeq([i \in 1..n |-> n * xs[i] - S])
        dev == [i \in 1..n |-> (n * xs[i] - S) \div g]
        M2 == SumSeq([i \in 1..n |-> dev[i] * dev[i]])
        M3 == SumSeq([i \in 1..n |-> dev[i] * dev[i] * dev[i]])
        r == Reduce(Rat(Abs(M3), M2))
    IN  IF n < 3 THEN RootNaN
        ELSE IF g = 0 THEN Root(FALSE, Rat(0, 1))
        ELSE Root(M3 < 0,
                  RatMul(Reduce(Rat(n * n * (n - 1), (n - 2) * (n - 2))),
                         RatMul(RatMul(r, r), Rat(1, M2))))

\* corr_matrix.iloc[i, j]: Pearson correlation over the rows where both columns
\* are present; NaN when fewer than 2 such rows or one side is constant
Correlation(cells_x, cells_y) ==
    LET both == SelectSeq([i \in 1..Len(cells_x) |-> <<cells_x[i], cells_y[i]>>],
                          LAMBDA pair : pair[1] # NA /\ pair[2] # NA)
        m == Len(both)
        xs == [i \in 1..m |-> both[i][1][1]]
        ys == [i \in 1..m |-> both[i][2][1]]
        C == m * SumSeq([i \in 1..m |-> xs[i] * ys[i]]) - SumSeq(xs) * SumSeq(ys)
        Vx == m * SumSeq([i \in 1..m |-> xs[i] * xs[i]]) - SumSeq(xs) * SumSeq(xs)
        Vy == m * SumSeq([i \in 1..m |-> ys[i] * ys[i]]) - SumSeq(ys) * SumSeq(ys)
    IN  IF m < 2 \/ Vx = 0 \/ Vy = 0 THEN RootNaN
        ELSE Root(C < 0, RatMul(Reduce(Rat(Abs(C), Vx)), Reduce(Rat(Abs(C), Vy))))

\* outlier_mask.sum() for method "iqr"
IqrOutlierCount(xs) ==
    LET q1 == Quantile(xs, 1, 4)
        q3 == Quantile(xs, 3, 4)
        iqr == RatSub(q3, q1)
        lower_bound == RatSub(q1, RatMul(Rat(3, 2), iqr))
        upper_bound == RatAdd(q3, RatMul(Rat(3, 2), iqr))
    IN  Cardinality({i \in 1..Len(xs) :
            RatLT(Rat(xs[i], 1), lower_bound) \/ RatGT(Rat(xs[i], 1), upper_bound)})

\* np.abs((series - series.mean()) / series.std()) > 3 at one value: with
\* sample variance v, (x - mean)^2 > 9 * v; NaN (never flagged) when v is NaN or 0
ZScoreAbove3Population(x, xs) ==
    LET n == Len(xs)
        S == SumSeq(xs)
        SS == SumSeq([i \in 1..n |-> xs[i] * xs[i]])
        v == IF n < 1 THEN NaN ELSE Reduce(Rat(n * SS - S * S, n * n))
        d == RatSub(Rat(x, 1), Mean(xs))
    IN  /\ ~IsNaN(v)
        /\ v.n # 0
        /\ RatGT(RatMul(d, d), RatMul(Rat(9, 1), v))
ZScoreAbove3(x, xs) ==
    LET v == SampleVariance(xs)
        d == RatSub(Rat(x, 1), Mean(xs))
    IN  /\ ~IsNaN(v)
        /\ v.n # 0
        /\ RatGT(RatMul(d, d), RatMul(Rat(9, 1), v))

\* outlier_mask.sum() for any other method
ZScoreOutlierCount(xs) == Cardinality({i \in 1..Len(xs) : ZScoreAbove3(xs[i], xs)})

(***************************************************************************)
(* EDAAgent: the bodies of the four analyses up to their add_step call.    *)
(* Each yields [raises, insights, description, result]; "raises" is true   *)
(* when pandas raises on a column before the step is recorded.             *)
(***************************************************************************)
DefaultMaxSteps == 10

\* the columns argument (<<>> for None, <<list>> for a list) defaulted to the
\* numeric columns of the digest
ResolveColumns(columns, schema) ==
    IF columns = <<>> THEN NumericCols(schema) ELSE columns[1]

\* columns the loops of analyze_distributions and detect_outliers do not skip
Analysed(columns, table) ==
    SelectSeq(columns, LAMBDA col : HasColumn(table, col)
                                    /\ Len(DropNA(Column(table, col).cells)) > 0)

\* skew(), quantile() and mean() raise on a series of strings
RaisesOnText(columns, table) ==
    \E i \in 1..Len(Analysed(columns, table)) :
        ~IsNumericDtype(Column(table, Analysed(columns, table)[i]).dtype)

RECURSIVE Concat(_)
Concat(seqs) == IF seqs = <<>> THEN <<>> ELSE Head(seqs) \o Concat(Tail(seqs))

\* analyze_missing_values
MissingValuesBody(table) ==
    LET missing_cols == SelectSeq(ColumnNames(table),
                            LAMBDA col : MissingCount(Column(table, col).cells) > 0)
        missing_summary ==
            [i \in 1..Len(missing_cols) |->
                [name |-> missing_cols[i],
                 count |-> MissingCount(Column(table, missing_cols[i]).cells),
                 ratio |-> Rat(MissingCount(Column(table, missing_cols[i]).cells),
                               Rows(table))]]
        high_missing == SelectSeq(missing_summary,
                            LAMBDA item : RatGT(item.ratio, Rat(3, 10)))
        insights ==
            IF missing_cols # <<>>
            THEN <<"Found " \o ToString(Len(missing_cols)) \o " columns with missing values">>
                 \o (IF high_missing # <<>>
                     THEN <<ToString(Len(high_missing)) \o " columns have >30% missing data">>
                     ELSE <<>>)
            ELSE <<"No missing values detected in dataset">>
    IN  [raises |-> FALSE,
         action |-> "missing_value_analysis",
         description |-> "Analyzed missing values across " \o ToString(Len(table))
                         \o " columns",
         insights |-> insights,
         result |-> [summary |-> missing_summary, insights |-> insights,
                     columns_with_missing |-> missing_cols]]

\* analyze_distributions: the entry of one analysed column
DistributionOf(col, table) ==
    LET skewness == Skewness(DropNA(Column(table, col).cells))
    IN  [name |-> col,
         skewness |-> skewness,
         distribution_type |->
            IF AbsGT(skewness, 1)
            THEN (IF ~skewness.neg THEN "right-skewed" ELSE "left-skewed")
            ELSE "normal"]

DistributionInsight(d) ==
    "'" \o d.name \o "' is " \o d.distribution_type
    \o " (skew=" \o FormatRoot2(d.skewness.neg, d.skewness.sq) \o ")"

\* analyze_distributions (the kurtosis entries of the result are left out)
DistributionsBody(columns_arg, table, schema) ==
    LET columns == ResolveColumns(columns_arg, schema)
        analysed == Analysed(columns, table)
        distributions == [i \in 1..Len(analysed) |-> DistributionOf(analysed[i], table)]
        skewed == SelectSeq(distributions, LAMBDA d : AbsGT(d.skewness, 1))
        insights == [i \in 1..Len(skewed) |-> DistributionInsight(skewed[i])]
    IN  IF RaisesOnText(columns, table)
        THEN [raises |-> TRUE]
        ELSE [raises |-> FALSE,
              action |-> "distribution_analysis",
              description |-> "Analyzed distributions for " \o ToString(Len(columns))
                              \o " numeric columns",
              insights |-> IF insights # <<>> THEN insights
                           ELSE <<"All distributions appear relatively normal">>,
              result |-> [distributions |-> distributions, insights |-> insights]]

\* analyze_correlations: the pairs (i, j), i < j, in the order of the nested loops
PairsFrom(i, n) == [k \in 1..(n - i) |-> <<i, i + k>>]
RECURSIVE PairsUpTo(_, _)
PairsUpTo(i, n) == IF i >= n THEN <<>> ELSE PairsFrom(i, n) \o PairsUpTo(i + 1, n)

\* analyze_correlations past its early return (the correlation_matrix entry of
\* the result is left out); threshold is [text, value]
CorrelationsBody(threshold, table, schema) ==
    LET numeric_cols == NumericCols(schema)
        pairs == PairsUpTo(1, Len(numeric_cols))
        corr == [k \in 1..Len(pairs) |->
                    [feature1 |-> numeric_cols[pairs[k][1]],
                     feature2 |-> numeric_cols[pairs[k][2]],
                     correlation |-> Correlation(
                         Column(table, numeric_cols[pairs[k][1]]).cells,
                         Column(table, numeric_cols[pairs[k][2]]).cells)]]
        strong_correlations == SelectSeq(corr,
                                   LAMBDA c : AbsGE(c.correlation, threshold.value))
        strong_insights ==
            [k \in 1..Len(strong_correlations) |->
                "Strong correlation ("
                \o FormatRoot2(strong_correlations[k].correlation.neg,
                               strong_correlations[k].correlation.sq)
                \o ") between '" \o strong_correlations[k].feature1
                \o "' and '" \o strong_correlations[k].feature2 \o "'"]
        insights ==
            IF strong_insights # <<>> THEN strong_insights
            ELSE <<"No strong correlations found (threshold=" \o threshold.text \o ")">>
    IN  [raises |-> FALSE,
         action |-> "correlation_analysis",
         description |-> "Analyzed correlations among " \o ToString(Len(numeric_cols))
                         \o " numeric features",
         insights |-> insights,
         result |-> [strong_correlations |-> strong_correlations, insights |-> insights]]

\* analyze_correlations: if len(numeric_cols) < 2
TooFewNumericColsNone(schema) == Len(NumericCols(schema)) < 1
TooFewNumericCols(schema) == Len(NumericCols(schema)) < 2

NotEnoughResult ==
    [correlations |-> None,
     insights |-> <<"Not enough numeric columns for correlation analysis">>]

\* detect_outliers: the entry of one analysed column
OutliersOf(col, method, table) ==
    LET xs == DropNA(Column(table, col).cells)
        outlier_count == IF method = "iqr" THEN IqrOutlierCount(xs)
                         ELSE ZScoreOutlierCount(xs)
    IN  [name |-> col, count |-> outlier_count, ratio |-> Rat(outlier_count, Len(xs))]

\* detect_outliers
OutliersBody(columns_arg, method, table, schema) ==
    LET columns == ResolveColumns(columns_arg, schema)
        analysed == Analysed(columns, table)
        counted == [i \in 1..Len(analysed) |-> OutliersOf(analysed[i], method, table)]
        outliers == SelectSeq(counted, LAMBDA o : o.count > 0)
        found == [i \in 1..Len(outliers) |->
                     "'" \o outliers[i].name \o "' has " \o ToString(outliers[i].count)
                     \o " outliers (" \o FormatPercent(outliers[i].ratio) \o ")"]
        insights == IF found # <<>> THEN found ELSE <<"No significant outliers detected">>
    IN  IF RaisesOnText(columns, table)
        THEN [raises |-> TRUE]
        ELSE [raises |-> FALSE,
              action |-> "outlier_detection",
              description |-> "Detected outliers using " \o method \o " method",
              insights |-> insights,
              result |-> [outliers |-> outliers, insights |-> insights, method |-> method]]

(***************************************************************************)
(* The tables explored.                                                    *)
(***************************************************************************)
Ints(values) == [i \in 1..Len(values) |-> <<values[i]>>]
Strs(values) == [i \in 1..Len(values) |-> <<values[i]>>]

\* no columns, no rows
EmptyTable == <<>>
\* columns without rows
NoRowsTable == <<Col("x", "float64", <<>>), Col("s", "object", <<>>)>>
\* age: 20% missing, mean 2 against median 1; city: 60 distinct values
AgeCityTable ==
    <<Col("age", "float64",
          [i \in 1..60 |-> IF i <= 12 THEN NA ELSE IF i <= 48 THEN <<1>> ELSE <<5>>]),
      Col("city", "object", [i \in 1..60 |-> <<"c" \o ToString(i)>>])>>
\* the same with the columns swapped and 7 of the 60 cities missing
CityAgeTable ==
    <<Col("city", "object",
          [i \in 1..60 |-> IF i <= 7 THEN NA ELSE <<"c" \o ToString(i)>>]),
      Col("age", "float64",
          [i \in 1..60 |-> IF i <= 12 THEN NA ELSE IF i <= 48 THEN <<1>> ELSE <<5>>])>>
\* two numeric columns with three column-level suggestions each
TwoSkewedTable ==
    <<Col("a", "float64", <<NA>> \o Ints(<<1, 1, 1, 5>>)),
      Col("b", "float64", Ints(<<7, 0, 0, 0>>) \o <<NA>>)>>
\* correlations 1.00, 0.60 and -1.00
CorrelatedTable ==
    <<Col("a", "int64", Ints(<<1, 2, 3, 4>>)),
      Col("b", "int64", Ints(<<2, 4, 6, 8>>)),
      Col("c", "int64", Ints(<<2, 1, 4, 3>>)),
      Col("d", "int64", Ints(<<4, 3, 2, 1>>))>>
\* a numeric column, a numeric column without values and a text column
MixedTable ==
    <<Col("a", "int64", Ints(<<4, 4, 4, 0>>)),
      Col("z", "float64", <<NA, NA, NA, NA>>),
      Col("s", "object", Strs(<<"u", "v", "u">>) \o <<NA>>)>>
\* exactly 10% missing; the mean exactly 1.5 times the median
BoundaryTable ==
    <<Col("m", "float64", Ints(<<2, 2, 2, 2, 2, 2, 5, 5, 5>>) \o <<NA>>),
      Col("t", "object", <<NA>> \o Strs(<<"p", "q", "p", "q", "p", "q", "p", "q", "p">>))>>
\* no column holds a value
NoValuesTable ==
    <<Col("p", "float64", <<NA, NA>>),
      Col("q", "float64", <<NA, NA>>),
      Col("r", "object", <<NA, NA>>)>>
\* more than 30% missing in both columns
SparseTable ==
    <<Col("s", "object", <<NA, NA>> \o Strs(<<"u">>)),
      Col("n", "float64", <<NA>> \o Ints(<<1, 2>>))>>
\* text only
TextTable == <<Col("s", "object", Strs(<<"u", "v", "u">>))>>
\* one value more than 3 sample standard deviations from the mean
SpikeTable == <<Col("x", "int64", [i \in 1..11 |-> IF i = 11 THEN <<1>> ELSE <<0>>])>>
\* the minimum below the lower IQR bound; the mean below 0.67 times the median
LowTailTable == <<Col("x", "int64", Ints(<<0, 10, 11, 12, 13>>)),
                  Col("y", "int64", Ints(<<0, 0, 5, 5, 5>>))>>
\* one value exactly 3 sample standard deviations from the mean
NearSpikeTable ==
    <<Col("x", "int64", [i \in 1..11 |-> IF i = 11 THEN <<10>>
                                         ELSE IF i = 10 THEN <<1>> ELSE <<0>>])>>

Tables ==
    {EmptyTable, NoRowsTable, AgeCityTable, CityAgeTable, TwoSkewedTable,
     CorrelatedTable, MixedTable, NoValuesTable, BoundaryTable, SparseTable, TextTable,
     SpikeTable, LowTailTable, NearSpikeTable}

\* the columns arguments explored on a table: the default and every one-column list
ColumnArgs(table) ==
    {<<>>} \cup {<<<<name>>>> : name \in ValueSet(ColumnNames(table)) \cup {"nope"}}
Methods == {"iqr", "zscore"}
Thresholds == {[text |-> "0.7", value |-> Rat(7, 10)], [text |-> "0.5", value |-> Rat(1, 2)]}

(***************************************************************************)
(* The agent's operations.                                                 *)
(***************************************************************************)
MaxAgentCalls == 2      \* analysis calls explored per agent

\* self.current_step += 1
StepNotCounted(step) == step
StepCounted(step) == step + 1

\* current_step after the early return of analyze_correlations
StepAfterEarlyReturnCounted(step) == step + 1
StepAfterEarlyReturn(step) == step

\* the tail of an analysis: add_step, current_step += 1, return; or the exception
Record(body) ==
    IF body.raises
    THEN /\ ret' = [exception |-> "TypeError"]
         /\ UNCHANGED <<ledger_vars, current_step>>
    ELSE /\ AddStepEffect(body.action, body.description, body.insights, None)
         /\ current_step' = StepCounted(current_step)
         /\ ret' = body.result

\* EDAAgent.analyze_missing_values
AnalyzeMissingValues(limit) ==
    /\ calls < limit
    /\ Record(MissingValuesBody(df))
    /\ calls' = calls + 1
    /\ op' = "analyze_missing_values"
    /\ args' = <<>>
    /\ UNCHANGED <<df, compressed_schema>>

\* EDAAgent.analyze_distributions
AnalyzeDistributions(limit, column_args) ==
    /\ calls < limit
    /\ \E columns \in column_args :
          /\ Record(DistributionsBody(columns, df, compressed_schema))
          /\ args' = <<columns>>
    /\ calls' = calls + 1
    /\ op' = "analyze_distributions"
    /\ UNCHANGED <<df, compressed_schema>>

\* EDAAgent.analyze_correlations
AnalyzeCorrelations(limit, thresholds) ==
    /\ calls < limit
    /\ \E threshold \in thresholds :
          /\ IF TooFewNumericCols(compressed_schema)
             THEN /\ ret' = NotEnoughResult
                  /\ current_step' = StepAfterEarlyReturn(current_step)
                  /\ UNCHANGED ledger_vars
             ELSE Record(CorrelationsBody(threshold, df, compressed_schema))
          /\ args' = <<threshold>>
    /\ calls' = calls + 1
    /\ op' = "analyze_correlations"
    /\ UNCHANGED <<df, compressed_schema>>

\* EDAAgent.detect_outliers
DetectOutliers(limit, column_args, methods) ==
    /\ calls < limit
    /\ \E columns \in column_args, method \in methods :
          /\ Record(OutliersBody(columns, method, df, compressed_schema))
          /\ args' = <<columns, method>>
    /\ calls' = calls + 1
    /\ op' = "detect_outliers"
    /\ UNCHANGED <<df, compressed_schema>>

\* EDAAgent.suggest_next_steps
SuggestNextStepsCall ==
    /\ op' = "suggest_next_steps"
    /\ args' = <<>>
    /\ ret' = SuggestNextSteps(compressed_schema, current_step)
    /\ UNCHANGED <<ledger_vars, agent_vars>>

\* EDAAgent.get_schema_context
GetSchemaContext ==
    /\ op' = "get_schema_context"
    /\ args' = <<>>
    /\ ret' = ToText(compressed_schema)
    /\ UNCHANGED <<ledger_vars, agent_vars>>

\* EDAAgent.schema_compressor.estimate_token_reduction(df)
EstimateTokenReduction ==
    /\ op' = "estimate_token_reduction"
    /\ args' = <<>>
    /\ ret' = TokenReduction(df)
    /\ UNCHANGED <<ledger_vars, agent_vars>>

\* EDAAgent.name, at its default
AgentName == "EDA Agent"

\* the lines f"{i}. {suggestion}" of the report
NumberedSuggestions(suggestions) ==
    [i \in 1..Len(suggestions) |-> ToString(i) \o ". " \o suggestions[i]]

\* "=" * 60
ReportRule == "============================================================"

\* f"{n:,}"
RECURSIVE Grouped(_)
Grouped(n) ==
    IF n < 1000 THEN ToString(n)
    ELSE Grouped(n \div 1000) \o "," \o Digits(n % 1000, 3)
FormatThousands(n) == IF n < 0 THEN "-" \o Grouped(-n) ELSE Grouped(n)

\* generate_summary_report: report_sections up to the suggestions
ReportHead(schema, h, a) ==
    <<ReportRule,
      AgentName \o " - Analysis Summary Report",
      ReportRule,
      "",
      ToText(schema),
      "\n",
      HistoryText(h, a),
      "\n",
      ReportRule,
      "SUGGESTED NEXT STEPS:",
      ReportRule>>

\* generate_summary_report: the token efficiency lines
SchemaCompressionLine(schema_stats) ==
    "Schema Compression: " \o FormatFixed(schema_stats.reduction_ratio, 1)
    \o "x reduction (" \o FormatThousands(schema_stats.tokens_saved) \o " tokens saved)"
HistoryCompressionLine(history_stats) ==
    "History Compression: " \o FormatFixed(history_stats.compression_ratio, 1)
    \o "x reduction (" \o FormatThousands(history_stats.tokens_saved) \o " tokens saved)"

\* if self.current_step > 0
WithHistoryLineAlways(step) == TRUE
WithHistoryLine(step) == step > 0

\* generate_summary_report: report_sections
ReportSections(table, schema, h, a, step) ==
    ReportHead(schema, h, a)
    \o NumberedSuggestions(SuggestNextSteps(schema, step))
    \o <<"\n", ReportRule, "TOKEN EFFICIENCY METRICS:", ReportRule>>
    \o <<SchemaCompressionLine(TokenReduction(table))>>
    \o (IF WithHistoryLine(step)
        THEN <<HistoryCompressionLine(TokenSavings(h, a))>>
        ELSE <<>>)

\* generate_summary_report: "\n".join(report_sections)
SummaryReport(table, schema, h, a, step) ==
    Join(ReportSections(table, schema, h, a, step), "\n")

\* EDAAgent.generate_summary_report
GenerateSummaryReportCounted ==
    /\ op' = "generate_summary_report"
    /\ args' = <<>>
    /\ ret' = SummaryReport(df, compressed_schema, history, archived_summary, current_step)
    /\ current_step' = current_step + 1
    /\ UNCHANGED <<ledger_vars, df, compressed_schema, calls>>
GenerateSummaryReport ==
    /\ op' = "generate_summary_report"
    /\ args' = <<>>
    /\ ret' = SummaryReport(df, compressed_schema, history, archived_summary, current_step)
    /\ UNCHANGED <<ledger_vars, agent_vars>>

\* run_automated_eda: the tail of one of its analyses, on the ledger and counter
\* the analyses before it left; an exception ends the run
RunStep(state, cap, body) ==
    IF state.raised \/ body.raises
    THEN [state EXCEPT !.raised = TRUE]
    ELSE [ledger |-> AddStepTo(state.ledger, cap, body.action, body.description,
                               body.insights, None),
          current_step |-> StepCounted(state.current_step),
          raised |-> FALSE]

\* run_automated_eda: analyze_correlations() with its default threshold
DefaultThreshold == [text |-> "0.7", value |-> Rat(7, 10)]
RunCorrelations(state, cap, schema, body) ==
    IF state.raised THEN state
    ELSE IF TooFewNumericCols(schema)
         THEN [state EXCEPT !.current_step = StepAfterEarlyReturn(@)]
         ELSE RunStep(state, cap, body)

\* run_automated_eda: what its four analyses compute, each on its default
\* arguments
DefaultAnalyses(table, schema) ==
    [missing_values |-> MissingValuesBody(table),
     distributions |-> DistributionsBody(<<>>, table, schema),
     correlations |-> IF TooFewNumericCols(schema)
                      THEN [raises |-> FALSE, result |-> NotEnoughResult]
                      ELSE CorrelationsBody(DefaultThreshold, table, schema),
     outliers |-> OutliersBody(<<>>, "iqr", table, schema)]

\* run_automated_eda: the four analyses in turn, each on the ledger and counter
\* left by the one before it (S1 to S4 are the one-element sets of these)
AfterAnalysesOutliersFirst(state, cap, schema, bodies) ==
    LET S1 == {RunStep(state, cap, bodies.outliers)}
        S2 == {RunStep(s, cap, bodies.missing_values) : s \in S1}
        S3 == {RunStep(s, cap, bodies.distributions) : s \in S2}
        S4 == {RunCorrelations(s, cap, schema, bodies.correlations) : s \in S3}
    IN  CHOOSE s \in S4 : TRUE
AfterAnalyses(state, cap, schema, bodies) ==
    LET S1 == {RunStep(state, cap, bodies.missing_values)}
        S2 == {RunStep(s, cap, bodies.distributions) : s \in S1}
        S3 == {RunCorrelations(s, cap, schema, bodies.correlations) : s \in S2}
        S4 == {RunStep(s, cap, bodies.outliers) : s \in S3}
    IN  CHOOSE s \in S4 : TRUE

\* run_automated_eda: results
AutomatedEdaResults(table, schema, bodies, state) ==
    [schema |-> schema,
     analyses |-> [missing_values |-> bodies.missing_values.result,
                   distributions |-> bodies.distributions.result,
                   correlations |-> bodies.correlations.result,
                   outliers |-> bodies.outliers.result],
     summary_report |-> SummaryReport(table, schema, state.ledger.history,
                                      state.ledger.archived_summary,
                                      state.current_step)]

\* EDAAgent.run_automated_eda
RunAutomatedEda(limit) ==
    /\ calls < limit
    /\ \E bodies \in {DefaultAnalyses(df, compressed_schema)} :
       \E state \in {AfterAnalyses([ledger |-> Ledger, current_step |-> current_step,
                                     raised |-> FALSE],
                                    max_steps_to_keep, compressed_schema, bodies)} :
           /\ SetLedger(state.ledger)
           /\ current_step' = state.current_step
           /\ ret' = IF state.raised THEN [exception |-> "TypeError"]
                     ELSE AutomatedEdaResults(df, compressed_schema, bodies, state)
    /\ calls' = calls + 4
    /\ op' = "run_automated_eda"
    /\ args' = <<>>
    /\ UNCHANGED <<df, compressed_schema>>

\* EDAAgent.__init__
NewAgent(table) ==
    /\ df = table
    /\ NewLedger(DefaultMaxSteps)
    /\ compressed_schema = Compress(table)
    /\ current_step = 0
    /\ calls = 0
    /\ op = "init"
    /\ args = <<>>
    /\ ret = None

InitAgent == \E table \in Tables : NewAgent(table)

NextAgent ==
    \/ AnalyzeMissingValues(MaxAgentCalls)
    \/ AnalyzeDistributions(MaxAgentCalls, ColumnArgs(df))
    \/ AnalyzeCorrelations(MaxAgentCalls, Thresholds)
    \/ DetectOutliers(MaxAgentCalls, ColumnArgs(df), Methods)
    \/ SuggestNextStepsCall
    \/ GetSchemaContext

SpecAgent == InitAgent /\ [][NextAgent]_vars

(***************************************************************************)
(* One agent driven past the capacity of its ledger.  To keep the run      *)
(* small, analyze_distributions is always called on the text column (and   *)
(* raises) and the table has one numeric column (analyze_correlations      *)
(* returns early), so two of the four analyses record steps.               *)
(***************************************************************************)
MaxLongCalls == 12      \* analysis calls explored on the long-running agent

InitAgentLong == NewAgent(SparseTable)

NextAgentLong ==
    \/ AnalyzeMissingValues(MaxLongCalls)
    \/ AnalyzeDistributions(MaxLongCalls, {<<<<"s">>>>})
    \/ AnalyzeCorrelations(MaxLongCalls, {[text |-> "0.7", value |-> Rat(7, 10)]})
    \/ DetectOutliers(MaxLongCalls, {<<>>}, {"iqr"})
    \/ SuggestNextStepsCall

SpecAgentLong == InitAgentLong /\ [][NextAgentLong]_vars

(***************************************************************************)
(* The ScaleDown integration and the interface's three compression         *)
(* buttons.  A response of the service is a JSON object; a dictionary is a  *)
(* record and the empty dictionary is <<>>.                                *)
(***************************************************************************)
\* d.get(key, default)
Get(d, key, default) == IF key \in DOMAIN d THEN d[key] ELSE default

\* "error" in result
HasError(result) == "error" \in DOMAIN result

\* str(e) of the RequestException raised by requests.post or raise_for_status
RequestFailures ==
    <<"401 Client Error: Unauthorized for url: https://api.scaledown.xyz/compress/raw/",
      "HTTPSConnectionPool(host='api.scaledown.xyz', port=443): Read timed out. (read timeout=30)">>

\* response.json() of an answered request
ResponseBodies ==
    <<[compressed |-> [content |-> "4 rows, 3 cols"], scaledown |-> [rate |-> "auto"]],
      [compressed |-> [content |-> "abc"]],
      [compressed |-> <<>>],
      <<>>,
      [error |-> "Invalid model", compressed |-> [content |-> "4 rows"]]>>

\* how the HTTP request of a compress call ends
HttpOutcomes ==
    [i \in 1..Len(RequestFailures) |->
        [failed |-> TRUE, message |-> RequestFailures[i], body |-> <<>>]]
    \o [i \in 1..Len(ResponseBodies) |->
        [failed |-> FALSE, message |-> "", body |-> ResponseBodies[i]]]

\* compress_schema, compress_analysis_context, compress_full_report: try/except
FailureRaised(outcome) == [exception |-> "RequestException"]
FailureAsValue(outcome) == [error |-> outcome.message, success |-> FALSE]
CompressResult(outcome) ==
    IF outcome.failed THEN FailureAsValue(outcome) ELSE outcome.body

\* the model and rate arguments' defaults
DefaultModel == "gpt-4o"
DefaultRate == "auto"

\* original_tokens / compressed_tokens if compressed_tokens > 0 else 0
StatsRatioUnguarded(original_tokens, compressed_tokens) ==
    Rat(original_tokens, compressed_tokens)
StatsRatio(original_tokens, compressed_tokens) ==
    IF compressed_tokens > 0 THEN Rat(original_tokens, compressed_tokens) ELSE Rat(0, 1)

\* result.get("compressed", {}).get("content", "")
CompressedContent(result) == Get(Get(result, "compressed", <<>>), "content", "")

\* ScaleDownIntegration.get_compression_stats
CompressionStats(original_text, compressed_result) ==
    IF HasError(compressed_result)
    THEN [error |-> "Cannot calculate stats due to API error",
          api_error |-> compressed_result.error]
    ELSE LET original_tokens == Len(original_text) \div 4
             compressed_tokens == Len(CompressedContent(compressed_result)) \div 4
         IN  [original_tokens |-> original_tokens,
              compressed_tokens |-> compressed_tokens,
              reduction_ratio |-> StatsRatio(original_tokens, compressed_tokens),
              tokens_saved |-> original_tokens - compressed_tokens,
              compression_rate |->
                  Get(Get(compressed_result, "scaledown", <<>>), "rate", "unknown")]

\* one compress call on a text, with the default model and rate; args holds
\* the three arguments and then how the HTTP request ended
CompressCall(name, text) ==
    /\ \E i \in 1..Len(HttpOutcomes) :
          /\ args' = <<text, DefaultModel, DefaultRate, HttpOutcomes[i]>>
          /\ ret' = CompressResult(HttpOutcomes[i])
    /\ op' = name
    /\ UNCHANGED <<ledger_vars, agent_vars>>

\* ScaleDownIntegration.compress_schema
CompressSchema == CompressCall("compress_schema", ToText(compressed_schema))

\* ScaleDownIntegration.compress_analysis_context
CompressAnalysisContext ==
    CompressCall("compress_analysis_context",
                 ContextForNextStep(history, archived_summary))

\* ScaleDownIntegration.compress_full_report
CompressFullReport ==
    CompressCall("compress_full_report",
                 SummaryReport(df, compressed_schema, history, archived_summary,
                               current_step))

\* ScaleDownIntegration.get_compression_stats, on an empty text or on the
\* schema text and the result of any compress call
GetCompressionStats ==
    /\ \E original_text \in {"", ToText(compressed_schema)},
          i \in 1..Len(HttpOutcomes) :
            LET compressed_result == CompressResult(HttpOutcomes[i])
            IN  /\ args' = <<original_text, compressed_result>>
                /\ ret' = CompressionStats(original_text, compressed_result)
    /\ op' = "get_compression_stats"
    /\ UNCHANGED <<ledger_vars, agent_vars>>

\* EDAAgent.get_history_context
GetHistoryContext ==
    /\ op' = "get_history_context"
    /\ args' = <<>>
    /\ ret' = ContextForNextStep(history, archived_summary)
    /\ UNCHANGED <<ledger_vars, agent_vars>>

\* what a button shows: st.error, st.success, st.text_area, st.metric; the
\* ret of a button is the list of what it showed, its args how its HTTP
\* request ended
Widget(kind, label, body) == [widget |-> kind, label |-> label, body |-> body]

\* the three metrics under a compressed schema or history
TokenMetrics(stats) ==
    <<Widget("metric", "Original", ToString(stats.original_tokens) \o " tokens"),
      Widget("metric", "Compressed", ToString(stats.compressed_tokens) \o " tokens"),
      Widget("metric", "Reduction", FormatFixed(stats.reduction_ratio, 1) \o "x")>>

\* f"${tokens_saved * 0.002 / 1000:.4f}": the product is a binary float, so
\* a value halfway between two numerals may be printed as either
CostSavedTexts(tokens_saved) ==
    LET units == 2 * Abs(tokens_saved)
        down == Fixed(tokens_saved < 0, units \div 100, 4)
        up == Fixed(tokens_saved < 0, units \div 100 + 1, 4)
    IN  IF units % 100 = 50 THEN {down, up}
        ELSE IF units % 100 > 50 THEN {up}
        ELSE {down}

\* the four metrics under a compressed report
ReportMetrics(stats, cost_saved) ==
    <<Widget("metric", "Original Tokens", FormatThousands(stats.original_tokens)),
      Widget("metric", "Compressed Tokens", FormatThousands(stats.compressed_tokens)),
      Widget("metric", "Reduction", FormatFixed(stats.reduction_ratio, 1) \o "x"),
      Widget("metric", "Cost Saved", "$" \o cost_saved)>>

\* if "error" in result: st.error(...) else: the content and the statistics;
\* the success messages are modelled after their leading check mark
ShowResult(result, done, label, metrics) ==
    IF HasError(result)
    THEN <<Widget("error", "", "API Error: " \o result.error)>>
    ELSE <<Widget("success", "", done),
           Widget("text_area", label, CompressedContent(result))>>
         \o metrics

\* app.py: the "Compress Schema with ScaleDown" button
CompressSchemaButton ==
    LET schema_text == ToText(compressed_schema)
    IN  /\ \E i \in 1..Len(HttpOutcomes) :
              LET result == CompressResult(HttpOutcomes[i])
              IN  /\ args' = <<HttpOutcomes[i]>>
                  /\ ret' = ShowResult(result, "Schema compressed!",
                                       "Ultra-Compressed Schema",
                                       IF HasError(result) THEN <<>>
                                       ELSE TokenMetrics(CompressionStats(schema_text, result)))
        /\ op' = "compress_schema_button"
        /\ UNCHANGED <<ledger_vars, agent_vars>>

\* app.py: the "Compress History with ScaleDown" button
CompressHistoryButton ==
    LET context == ContextForNextStep(history, archived_summary)
    IN  /\ \E i \in 1..Len(HttpOutcomes) :
              LET result == CompressResult(HttpOutcomes[i])
              IN  /\ args' = <<HttpOutcomes[i]>>
                  /\ ret' = ShowResult(result, "History compressed!",
                                       "Ultra-Compressed History",
                                       IF HasError(result) THEN <<>>
                                       ELSE TokenMetrics(CompressionStats(context, result)))
        /\ op' = "compress_history_button"
        /\ UNCHANGED <<ledger_vars, agent_vars>>

\* app.py: the "Compress Complete Report" button
CompressReportButton ==
    LET report == SummaryReport(df, compressed_schema, history, archived_summary,
                                current_step)
    IN  /\ \E i \in 1..Len(HttpOutcomes) :
              LET result == CompressResult(HttpOutcomes[i])
                  stats == CompressionStats(report, result)
              IN  /\ args' = <<HttpOutcomes[i]>>
                  /\ IF HasError(result)
                     THEN ret' = ShowResult(result, "", "", <<>>)
                     ELSE \E cost_saved \in CostSavedTexts(stats.tokens_saved) :
                             ret' = ShowResult(result, "Full report compressed!",
                                               "Ultra-Compressed Report",
                                               ReportMetrics(stats, cost_saved))
        /\ op' = "compress_report_button"
        /\ UNCHANGED <<ledger_vars, agent_vars>>

(***************************************************************************)
(* The agent behind the interface: a few analyses on a small table, the    *)
(* texts and token estimates, and the compression service.                *)
(***************************************************************************)
MaxAppCalls == 1        \* analysis calls explored before the texts are compressed

AppTables == {EmptyTable, NoValuesTable, SparseTable, MixedTable}

InitApp == \E table \in AppTables : NewAgent(table)

NextApp ==
    \/ AnalyzeMissingValues(MaxAppCalls)
    \/ AnalyzeDistributions(MaxAppCalls, {<<>>})
    \/ AnalyzeCorrelations(MaxAppCalls, {[text |-> "0.7", value |-> Rat(7, 10)]})
    \/ DetectOutliers(MaxAppCalls, {<<>>}, {"iqr"})
    \/ SuggestNextStepsCall
    \/ GetSchemaContext
    \/ GetHistoryContext
    \/ GenerateSummaryReport
    \/ RunAutomatedEda(MaxAppCalls)
    \/ EstimateTokenReduction
    \/ EstimateTokenSavings
    \/ CompressSchema
    \/ CompressAnalysisContext
    \/ CompressFullReport
    \/ GetCompressionStats
    \/ CompressSchemaButton
    \/ CompressHistoryButton
    \/ CompressReportButton

SpecApp == InitApp /\ [][NextApp]_vars

(***************************************************************************)
(* The digest of one text column, by the number of its distinct values:    *)
(* an agent constructed on such a table, its schema text, one analysis and *)
(* its suggestions.                                                        *)
(***************************************************************************)
MaxDistinct == 52       \* distinct values of the text column
MaxDigestCalls == 1     \* analysis calls explored on such an agent

\* a text column of `missing` nulls, then the values v1 .. v<distinct>, then
\* `repeats` further occurrences of the last value
CategoricalTable(distinct, repeats, missing) ==
    <<Col("label", "object",
          [i \in 1..missing |-> NA]
          \o [i \in 1..distinct |-> <<"v" \o ToString(i)>>]
          \o [i \in 1..(IF distinct > 0 THEN repeats ELSE 0) |->
                 <<"v" \o ToString(distinct)>>])>>

InitDigest ==
    \E distinct \in 0..MaxDistinct, repeats \in 0..1, missing \in 0..1 :
        NewAgent(CategoricalTable(distinct, repeats, missing))

NextDigest ==
    \/ AnalyzeMissingValues(MaxDigestCalls)
    \/ GetSchemaContext
    \/ SuggestNextStepsCall

SpecDigest == InitDigest /\ [][NextDigest]_vars

(***************************************************************************)
(* Properties of the ledger, checked under SpecLedger.                     *)
(***************************************************************************)

\* C1: after every add_step call on a ledger with a positive max_steps_to_keep,
\* the number of recent steps is at most max_steps_to_keep.
C1_RecentWithinCapacity == Len(history) <= max_steps_to_keep

\* C1 witness: an add_step has overflowed and archived, leaving a full window.
C1_Witness ==
    op = "add_step" /\ archived_summary # <<>> /\ Len(history) = max_steps_to_keep

\* C2: after n add_step calls on a freshly created ledger of capacity c, the
\* number of archived summaries is max(0, n - c).
C2_ArchivedCount ==
    clears = 0 => Len(archived_summary) = Max(0, Len(log) - max_steps_to_keep)

\* C2 witness: a fresh ledger that took at least two calls more than its capacity.
C2_Witness ==
    clears = 0 /\ op = "add_step" /\ Len(log) >= max_steps_to_keep + 2

\* C3: eviction is FIFO: the archived summaries are the summaries of the first
\* steps added, in the order in which those steps were added, and the recent
\* window holds the steps added after them.
C3_ArchivedInInsertionOrder ==
    clears = 0 =>
        /\ Len(archived_summary) <= Len(log)
        /\ \A i \in 1..Len(archived_summary) : archived_summary[i] = Summary(log[i])
        /\ history = SubSeq(log, Len(archived_summary) + 1, Len(log))

\* C3 witness: two evictions of steps with different summaries have happened.
C3_Witness ==
    /\ clears = 0
    /\ Len(archived_summary) >= 2
    /\ archived_summary[1] # archived_summary[2]
    /\ history # <<>>

\* C4: step numbers are 1-based and strictly increasing over the add_step calls
\* on one ledger, so no two steps ever added share a step number.
C4_StepNumbersStrictlyIncreasing ==
    clears = 0 =>
        /\ log # <<>> => log[1].step_number = 1
        /\ \A i, j \in 1..Len(log) : i < j => log[i].step_number < log[j].step_number

\* C5 as claimed: across every step of the ledger, clear_history included, the
\* previous archived list is a prefix of the new one.
C5_ArchivedOnlyGrows == [][IsPrefix(archived_summary, archived_summary')]_vars

\* C5 as amended: add_step (with its internal archival) and the read operations
\* leave the previous archived list a prefix of the new one, which grows by at
\* most one entry; clear_history empties the archived list and the recent window.
C5_ArchivedGrowsUntilCleared ==
    [][IF op' = "clear_history"
       THEN archived_summary' = <<>> /\ history' = <<>>
       ELSE /\ IsPrefix(archived_summary, archived_summary')
            /\ Len(archived_summary') <= Len(archived_summary) + 1]_vars

\* C5 witness: the archived list has grown again after a clear_history.
C5_Witness ==
    op = "add_step" /\ clears > 0 /\ Len(archived_summary) >= 2

\* C8: whatever the number of add_step calls, the context for the next step is
\* built from at most 3 archived summaries, at most 3 rendered recent steps and
\* at most 3 pooled insights.
C8_ContextItemsBounded ==
    /\ Len(ContextArchived(archived_summary)) <= 3
    /\ Len(ContextRecent(history)) <= 3
    /\ Len(ContextKeyInsights(history)) <= 3
    /\ Len(ContextArchived(archived_summary)) + Len(ContextRecent(history))
         + Len(ContextKeyInsights(history)) <= 9

\* C8 witness: the context was produced for a ledger holding more than 3
\* archived summaries.
C8_Witness ==
    op = "get_context_for_next_step" /\ Len(archived_summary) > 3 /\ ret # ""

(***************************************************************************)
(* Properties of the agent, checked under SpecAgent and SpecAgentLong.     *)
(***************************************************************************)
AnalysisOps ==
    {"analyze_missing_values", "analyze_distributions", "analyze_correlations",
     "detect_outliers"}

\* the number of steps the ledger holds, archived or recent
LedgerTotal == Len(archived_summary) + Len(history)

\* x occurs in the list s
InList(x, s) == \E i \in 1..Len(s) : s[i] = x

\* C6 as claimed: every call to one of the four analyses, on any table and with
\* any arguments, records exactly one step and increases current_step by 1.
C6_EveryCallRecordsOneStep ==
    [][calls' = calls + 1 =>
          /\ Len(log') = Len(log) + 1
          /\ Len(archived_summary') + Len(history') = LedgerTotal + 1
          /\ current_step' = current_step + 1]_vars

\* C6 as amended: a call that returns records exactly one step and increases
\* current_step by 1, except analyze_correlations on a digest with fewer than 2
\* numeric columns, which returns without recording; that call and a call that
\* raises leave the ledger and current_step as they were.
C6_ReturningCallsRecordOneStep ==
    [][calls' = calls + 1 =>
          IF \/ "exception" \in DOMAIN ret'
             \/ op' = "analyze_correlations" /\ TooFewNumericCols(compressed_schema)
          THEN /\ log' = log
               /\ history' = history
               /\ archived_summary' = archived_summary
               /\ current_step' = current_step
          ELSE /\ Len(log') = Len(log) + 1
               /\ Len(archived_summary') + Len(history') = LedgerTotal + 1
               /\ current_step' = current_step + 1]_vars

\* C6 witness: a second analysis, a correlation analysis past its early return,
\* has recorded its step.
C6_Witness ==
    /\ op = "analyze_correlations"
    /\ "strong_correlations" \in DOMAIN ret
    /\ current_step = 2
    /\ Len(history) = 2

\* C7: between the agent's calls, current_step equals the number of steps the
\* ledger has recorded (archived summaries plus recent steps), and current_step
\* never decreases.
C7_StepCounterConsistent ==
    /\ [](current_step = LedgerTotal)
    /\ [][current_step' >= current_step]_vars

\* C7 witness: the agent's ledger has archived a step, after calls that raised
\* or returned early, and suggestions were asked for.
C7_Witness ==
    /\ op = "suggest_next_steps"
    /\ archived_summary # <<>>
    /\ Len(history) = DefaultMaxSteps
    /\ calls > current_step

\* C9: with current_step = 0, suggest_next_steps returns exactly the three fixed
\* suggestions in their order, whatever the digest; with current_step > 0 it
\* returns at most 5.
C9_SuggestionCount ==
    op = "suggest_next_steps" =>
        IF current_step = 0
        THEN ret = <<"Examine basic statistics and data distribution",
                     "Check for missing values and data quality issues",
                     "Identify column types and potential features">>
        ELSE Len(ret) <= 5

\* C9 witness: the fixed suggestions were returned for a digest from which rules
\* would have fired.
C9_Witness ==
    /\ op = "suggest_next_steps"
    /\ current_step = 0
    /\ Len(GeneratedSuggestions(compressed_schema)) > 5

\* the rules of C10, on one item of the digest
C10_MissingExpected(item) ==
    10 * item.info.missing_count > compressed_schema.shape.rows
C10_OutlierExpected(item) ==
    /\ item.info.type = "numeric"
    /\ item.info.stats # NoStats
    /\ LET st == item.info.stats
           iqr == RatSub(st.q75, st.q25)
           reach == RatMul(Rat(3, 2), iqr)
       IN  /\ iqr.n > 0
           /\ \/ RatLT(st.min, RatSub(st.q25, reach))
              \/ RatGT(st.max, RatAdd(st.q75, reach))
C10_SkewExpected(item) ==
    /\ item.info.type = "numeric"
    /\ item.info.stats # NoStats
    /\ LET st == item.info.stats
       IN  \/ 2 * st.mean.n * st.median.d > 3 * st.median.n * st.mean.d
           \/ 100 * st.mean.n * st.median.d < 67 * st.median.n * st.mean.d
C10_CardinalityExpected(item) ==
    item.info.type = "categorical" /\ item.info.cardinality = "high"

\* C10: with current_step > 0, the column-level suggestions generated for a
\* column are exactly those whose rule holds on its digest (missing_ratio > 0.1;
\* numeric with IQR > 0 and min or max outside the IQR fences; numeric with
\* mean > 1.5 * median or mean < 0.67 * median; categorical of high
\* cardinality), and for the table of a numeric column with 20% missing and a
\* categorical column of 60 values the returned list holds both the
\* missing-value and the high-cardinality suggestion.
C10_ColumnRules ==
    /\ \A k \in 1..Len(compressed_schema.columns) :
          LET item == compressed_schema.columns[k]
              made == ColumnSuggestions(item.name, item.info)
              Made(prefix) == \E i \in 1..Len(made) :
                                  /\ Len(made[i]) >= Len(prefix)
                                  /\ SubSeq(made[i], 1, Len(prefix)) = prefix
              expected ==
                  (IF C10_MissingExpected(item) THEN 1 ELSE 0)
                  + (IF C10_OutlierExpected(item) THEN 1 ELSE 0)
                  + (IF C10_SkewExpected(item) THEN 1 ELSE 0)
                  + (IF C10_CardinalityExpected(item) THEN 1 ELSE 0)
          IN  /\ Made("Investigate missing values in '" \o item.name \o "'")
                    <=> C10_MissingExpected(item)
              /\ Made("Analyze potential outliers in '" \o item.name \o "'")
                    <=> C10_OutlierExpected(item)
              /\ Made("Examine distribution skewness in '" \o item.name \o "'")
                    <=> C10_SkewExpected(item)
              /\ Made("Analyze high cardinality in '" \o item.name \o "'")
                    <=> C10_CardinalityExpected(item)
              /\ Len(made) = expected
    /\ (op = "suggest_next_steps" /\ current_step > 0
           /\ Len(compressed_schema.columns) = 2) =>
          \A i, j \in 1..2 :
              LET num == compressed_schema.columns[i]
                  cat == compressed_schema.columns[j]
              IN  (/\ num.info.type = "numeric"
                   /\ 5 * num.info.missing_count = compressed_schema.shape.rows
                   /\ compressed_schema.shape.rows > 0
                   /\ cat.info.type = "categorical"
                   /\ cat.info.unique_count = 60) =>
                      /\ InList("Investigate missing values in '" \o num.name
                                    \o "' (20.0% missing)", ret)
                      /\ InList("Analyze high cardinality in '" \o cat.name
                                    \o "' (60 unique values)", ret)

\* C10 witness: suggestions were returned after an analysis of the age/city table.
C10_Witness ==
    /\ op = "suggest_next_steps"
    /\ current_step > 0
    /\ df = AgeCityTable
    /\ Len(ret) = 4

\* the positions of the 'explore correlations' suggestion in a list
C11_CorrelationPositions(suggestions) ==
    {i \in 1..Len(suggestions) :
        suggestions[i] = "Explore correlations between numeric features"}

\* the number of numeric columns of the digest, with or without stats
C11_NumericCount ==
    Cardinality({k \in 1..Len(compressed_schema.columns) :
                    compressed_schema.columns[k].info.type = "numeric"})

\* C11: with current_step > 0 the 'explore correlations' suggestion is generated
\* exactly once, last, iff the digest has at least 2 numeric columns (with or
\* without stats); the returned list holds it, once, iff in addition fewer than
\* 5 column-level suggestions precede it.
C11_CorrelationSuggestion ==
    LET made == GeneratedSuggestions(compressed_schema)
        at == C11_CorrelationPositions(made)
    IN  /\ IF C11_NumericCount >= 2 THEN at = {Len(made)} /\ made # <<>> ELSE at = {}
        /\ (op = "suggest_next_steps" /\ current_step > 0) =>
              LET got == C11_CorrelationPositions(ret)
              IN  IF C11_NumericCount >= 2 /\ Len(made) - 1 < 5
                  THEN got = {Len(made)} /\ Len(ret) = Len(made)
                  ELSE got = {}

\* C11 witness: the suggestion was returned for a digest with a numeric column
\* with stats and one without.
C11_Witness ==
    /\ op = "suggest_next_steps"
    /\ current_step > 0
    /\ C11_NumericCount = 2
    /\ \E k \in 1..Len(compressed_schema.columns) :
          /\ compressed_schema.columns[k].info.type = "numeric"
          /\ compressed_schema.columns[k].info.stats = NoStats
    /\ C11_CorrelationPositions(ret) # {}

\* C12: the digest compress returns has exactly one entry per table column, in
\* the table's column order, and its shape records the table's row count and
\* column count; a table without columns or rows yields row count 0 and an empty
\* column map.
C12_DigestShape ==
    /\ Len(compressed_schema.columns) = Len(df)
    /\ \A k \in 1..Len(df) : compressed_schema.columns[k].name = df[k].name
    /\ compressed_schema.shape.columns = Len(df)
    /\ \A k \in 1..Len(df) : compressed_schema.shape.rows = Len(df[k].cells)
    /\ df = <<>> => compressed_schema.shape.rows = 0 /\ compressed_schema.columns = <<>>

\* C12 witness: the digest of a table with four columns and rows.
C12_Witness ==
    /\ Len(df) = 4
    /\ compressed_schema.shape.rows = 4
    /\ compressed_schema.columns[4].name = "d"

\* the table columns that are numeric and hold no non-null value
C13_EmptyNumericColumns ==
    {k \in 1..Len(df) :
        /\ df[k].dtype \in {"int64", "float64"}
        /\ \A j \in 1..Len(df[k].cells) : df[k].cells[j] = <<>>}

\* text holds part, and after it the text ends or the next column's section begins
C13_SectionIs(text, part) ==
    \E i \in 1..(Len(text) - Len(part) + 1) :
        /\ SubSeq(text, i, i + Len(part) - 1) = part
        /\ \/ i + Len(part) - 1 = Len(text)
           \/ /\ i + Len(part) + 2 <= Len(text)
              /\ SubSeq(text, i + Len(part), i + Len(part) + 2) = "\n\n["

\* C13: for every numeric column without a non-null value the digest has type
\* numeric and no stats; the schema text gives the column its name, type and
\* missing lines only (no range, mean, median or unique line), and
\* suggest_next_steps makes no outlier or skewness suggestion for it.
C13_AbsentStatsSkipped ==
    \A k \in C13_EmptyNumericColumns :
        LET item == compressed_schema.columns[k]
            cells == Len(df[k].cells)
            section == "\n\n[" \o df[k].name \o "]\n  Type: numeric (" \o df[k].dtype
                       \o ")\n  Missing: " \o (IF cells = 0 THEN "nan%" ELSE "100.0%")
                       \o " (" \o ToString(cells) \o " values)"
        IN  /\ item.name = df[k].name
            /\ item.info.type = "numeric"
            /\ item.info.stats = <<>>
            /\ op = "get_schema_context" => C13_SectionIs(ret, section)
            /\ (op = "suggest_next_steps" /\ current_step > 0) =>
                  /\ ~InList("Analyze potential outliers in '" \o df[k].name \o "'", ret)
                  /\ ~InList("Examine distribution skewness in '" \o df[k].name \o "'", ret)

\* C13 witness: the schema text of a table with an all-null numeric column between
\* two other columns.
C13_Witness ==
    /\ op = "get_schema_context"
    /\ C13_EmptyNumericColumns = {2}
    /\ Len(df) = 3
    /\ Len(df[2].cells) > 0

\* C14: analyze_correlations on a digest with fewer than 2 numeric columns
\* returns a result with no correlations (None) and exactly the one insight that
\* there are not enough numeric columns, and does not raise.
C14_NotEnoughNumericColumns ==
    (op = "analyze_correlations" /\ C11_NumericCount < 2) =>
        /\ DOMAIN ret = {"correlations", "insights"}
        /\ ret.correlations = None
        /\ ret.insights = <<"Not enough numeric columns for correlation analysis">>

\* C14 witness: analyze_correlations returned for a digest with one numeric column.
C14_Witness ==
    /\ op = "analyze_correlations"
    /\ C11_NumericCount = 1
    /\ "correlations" \in DOMAIN ret

\* the table has no columns, no rows, or a column without a non-null value
C15_Degenerate ==
    \/ df = <<>>
    \/ \E k \in 1..Len(df) : \A j \in 1..Len(df[k].cells) : df[k].cells[j] = <<>>

\* the last call was one of the four analyses, on its default columns
C15_DefaultAnalysis ==
    /\ op \in AnalysisOps
    /\ op \in {"analyze_distributions", "detect_outliers"} => args[1] = <<>>

\* C15 as claimed: on a degenerate table every operation returns a result and none
\* raises; the result of an analysis that found nothing carries a placeholder
\* insight, so its insights are never empty.
C15_TotalWithPlaceholders ==
    (C15_Degenerate /\ C15_DefaultAnalysis) =>
        /\ "exception" \notin DOMAIN ret
        /\ "insights" \in DOMAIN ret
        /\ ret.insights # <<>>

\* C15, the part that holds: on a degenerate table no operation raises, the
\* analyses on their default columns return a result with an insights list, and
\* the step they record carries at least one insight.
C15_NeverRaises ==
    C15_Degenerate =>
        /\ C15_DefaultAnalysis =>
              /\ "exception" \notin DOMAIN ret
              /\ "insights" \in DOMAIN ret
              /\ op # "analyze_correlations" \/ C11_NumericCount >= 2 =>
                    /\ history # <<>>
                    /\ history[Len(history)].insights # <<>>
        /\ op = "suggest_next_steps" => Len(ret) <= 5
        /\ op = "generate_summary_report" => Len(ret) > 0

(***************************************************************************)
(* Properties of the token estimates, the report and the compression       *)
(* service, checked under SpecApp.                                         *)
(***************************************************************************)
\* a ratio and a saving computed from a numerator and a denominator count
C16_Guarded(numerator, denominator, ratio, tokens_saved) ==
    /\ ratio = IF denominator = 0 THEN Rat(0, 1) ELSE Rat(numerator, denominator)
    /\ tokens_saved = numerator - denominator

\* C16: the ratios of estimate_token_reduction, estimate_token_savings and
\* get_compression_stats are 0 when the denominator token count is 0 and
\* numerator / denominator otherwise, none of the three raises, and
\* tokens_saved is the numerator count minus the denominator count.
C16_RatiosGuarded ==
    /\ op = "estimate_token_reduction" =>
          /\ ret.schema_tokens = Len(ToText(compressed_schema)) \div 4
          /\ ret.estimated_full_tokens = (SampleTextLen(df) * Rows(df)) \div 400
          /\ C16_Guarded(ret.estimated_full_tokens, ret.schema_tokens,
                         ret.reduction_ratio, ret.tokens_saved)
    /\ op = "estimate_token_savings" =>
          /\ ret.full_history_tokens = Len(FullHistoryText(history)) \div 4
          /\ ret.compressed_tokens =
                Len(ContextForNextStep(history, archived_summary)) \div 4
          /\ C16_Guarded(ret.full_history_tokens, ret.compressed_tokens,
                         ret.compression_ratio, ret.tokens_saved)
    /\ op = "get_compression_stats" /\ "error" \notin DOMAIN args[2] =>
          /\ ret.original_tokens = Len(args[1]) \div 4
          /\ ret.compressed_tokens = Len(CompressedContent(args[2])) \div 4
          /\ C16_Guarded(ret.original_tokens, ret.compressed_tokens,
                         ret.reduction_ratio, ret.tokens_saved)
    /\ op \in {"estimate_token_reduction", "estimate_token_savings",
               "get_compression_stats"} => "exception" \notin DOMAIN ret

\* C16 witness: get_compression_stats was given a text of at least one token
\* and a response whose content is shorter than one token.
C16_Witness ==
    /\ op = "get_compression_stats"
    /\ "error" \notin DOMAIN args[2]
    /\ ret.original_tokens > 0
    /\ ret.compressed_tokens = 0
    /\ ret.reduction_ratio = Rat(0, 1)
    /\ ret.tokens_saved = ret.original_tokens

\* C16, further cases: estimate_token_savings on an empty ledger (both counts
\* 0) and on a ledger with a step (a ratio below 1, a negative saving).
C16_WitnessEmptyLedger ==
    /\ op = "estimate_token_savings"
    /\ ret.compressed_tokens = 0
    /\ ret.compression_ratio = Rat(0, 1)
C16_WitnessNegativeSaving ==
    /\ op = "estimate_token_savings"
    /\ ret.compressed_tokens > 0
    /\ ret.tokens_saved < 0

\* C16: the schema text always holds at least one token, so the guard of
\* estimate_token_reduction is never the branch taken.
C16_SchemaTokensPositive ==
    op = "estimate_token_reduction" => ret.schema_tokens > 0

\* the operations that send a text to the compression service
C17_CompressOps == {"compress_schema", "compress_analysis_context", "compress_full_report"}
C17_Buttons ==
    {"compress_schema_button", "compress_history_button", "compress_report_button"}

\* C17: a compress call whose HTTP request fails returns a record with an
\* 'error' field (the failure's message) instead of raising; and when 'error'
\* is in a response, get_compression_stats returns an error record and a
\* button shows the error only, neither reading the compressed content.
C17_FailureIsValue ==
    /\ op \in C17_CompressOps =>
          /\ "exception" \notin DOMAIN ret
          /\ args[4].failed =>
                /\ "error" \in DOMAIN ret
                /\ ret.error = args[4].message
    /\ op = "get_compression_stats" /\ "error" \in DOMAIN args[2] =>
          ret = [error |-> "Cannot calculate stats due to API error",
                 api_error |-> args[2].error]
    /\ op \in C17_Buttons =>
          LET result == IF args[1].failed
                        THEN [error |-> args[1].message]
                        ELSE args[1].body
          IN  "error" \in DOMAIN result =>
                  ret = <<[widget |-> "error", label |-> "",
                           body |-> "API Error: " \o result.error]>>

\* C17 witness: the HTTP request of compress_full_report failed.
C17_Witness ==
    /\ op = "compress_full_report"
    /\ args[4].failed
    /\ ret.success = FALSE

\* C17, further cases: an answered request whose body holds both an error and
\* compressed content, given to get_compression_stats and met by a button.
C17_WitnessStatsOnError ==
    /\ op = "get_compression_stats"
    /\ "error" \in DOMAIN args[2]
    /\ "compressed" \in DOMAIN args[2]
C17_WitnessButtonOnError ==
    /\ op = "compress_schema_button"
    /\ ~args[1].failed
    /\ "error" \in DOMAIN args[1].body
    /\ "compressed" \in DOMAIN args[1].body
    /\ Len(ret) = 1

\* the position of the first occurrence of part in text, 0 when there is none
C18_Find(text, part) ==
    LET hits == {i \in 1..(Len(text) - Len(part) + 1) :
                    SubSeq(text, i, i + Len(part) - 1) = part}
    IN  IF hits = {} THEN 0 ELSE CHOOSE i \in hits : \A j \in hits : i <= j

\* positions, none of them 0, in strictly increasing order
C18_InOrder(positions) ==
    /\ \A i \in 1..Len(positions) : positions[i] > 0
    /\ \A i \in 1..(Len(positions) - 1) : positions[i] < positions[i + 1]

\* the numbered lines of the suggestions a report is built from
C18_Numbered ==
    LET suggestions == SuggestNextSteps(compressed_schema, current_step)
    IN  [i \in 1..Len(suggestions) |->
            "\n" \o ToString(i) \o ". " \o suggestions[i] \o "\n"]

\* C18: the report holds, in this order, the header with the agent's name, the
\* schema text, the history text, the SUGGESTED NEXT STEPS heading with the
\* numbered suggestions, and the TOKEN EFFICIENCY METRICS heading with the
\* schema compression line; the history compression line follows iff
\* current_step > 0.
C18_ReportSections ==
    op = "generate_summary_report" =>
        LET schema_line == C18_Find(ret, "\nSchema Compression: ")
            history_line == C18_Find(ret, "\nHistory Compression: ")
        IN  /\ C18_InOrder(
                  <<C18_Find(ret, "EDA Agent - Analysis Summary Report\n"),
                    C18_Find(ret, "\n" \o ToText(compressed_schema) \o "\n"),
                    C18_Find(ret, "\n" \o HistoryText(history, archived_summary) \o "\n"),
                    C18_Find(ret, "\nSUGGESTED NEXT STEPS:\n")>>
                  \o [i \in 1..Len(C18_Numbered) |-> C18_Find(ret, C18_Numbered[i])]
                  \o <<C18_Find(ret, "\nTOKEN EFFICIENCY METRICS:\n"), schema_line>>)
            /\ history_line > 0 <=> current_step > 0
            /\ history_line > 0 => history_line > schema_line

\* C18 witness: a report generated after an analysis, with both compression
\* lines.
C18_Witness ==
    /\ op = "generate_summary_report"
    /\ current_step > 0
    /\ C18_Find(ret, "\nSchema Compression: ") > 0
    /\ C18_Find(ret, "\nHistory Compression: ") > C18_Find(ret, "\nSchema Compression: ")

\* C18, further case: a report generated before any analysis, without the
\* history compression line.
C18_WitnessFresh ==
    /\ op = "generate_summary_report"
    /\ current_step = 0
    /\ C18_Find(ret, "\nSchema Compression: ") > 0
    /\ C18_Find(ret, "\nHistory Compression: ") = 0

\* C19: suggest_next_steps and generate_summary_report leave current_step, the
\* recent steps, the archived summaries and the digest unchanged; a second
\* call of either right after the first returns the same, and a report
\* generated right after suggest_next_steps lists the suggestions it returned.
C19_ReadOnly ==
    [][/\ op' \in {"suggest_next_steps", "generate_summary_report"} =>
             /\ current_step' = current_step
             /\ history' = history
             /\ archived_summary' = archived_summary
             /\ compressed_schema' = compressed_schema
       /\ op' = op /\ op \in {"suggest_next_steps", "generate_summary_report"} =>
             ret' = ret
       /\ op = "suggest_next_steps" /\ op' = "generate_summary_report" =>
             \A i \in 1..Len(ret) :
                 C18_Find(ret', "\n" \o ToString(i) \o ". " \o ret[i] \o "\n") > 0
      ]_vars

\* C19 witness: a report was generated on an agent with a recorded step and
\* suggestions to make, all of which are still there.
C19_Witness ==
    /\ op = "generate_summary_report"
    /\ current_step = 1
    /\ Len(history) = 1
    /\ Len(SuggestNextSteps(compressed_schema, current_step)) >= 2

(***************************************************************************)
(* Properties of the ledger's step numbers, checked under SpecLedger.      *)
(***************************************************************************)
\* C20: add_step numbers the new step archived_count + len(recent_steps) + 1,
\* both counted before the step is appended.
C20_StepNumberCountsAll ==
    [][op' = "add_step" /\ log' # log =>
          ret'.step_number = Len(archived_summary) + Len(history) + 1]_vars

\* the head of a summary, up to its insights
C21_SummaryHead(step) ==
    "Step " \o ToString(step.step_number) \o " (" \o step.action \o "): "
    \o step.description \o ". "

\* an add_step call archives the oldest recent step, with the given summary,
\* when the window exceeds the capacity after the append, and nothing otherwise
C21_ArchivesOne(summary(_)) ==
    op' = "add_step" /\ log' # log =>
        IF Len(history) + 1 > max_steps_to_keep
        THEN /\ archived_summary' = Append(archived_summary, summary(history[1]))
             /\ history' = Append(Tail(history), ret')
        ELSE /\ archived_summary' = archived_summary
             /\ history' = Append(history, ret')

\* C21 as stated: an add_step call archives exactly one step when the window
\* exceeds the capacity after the append and none otherwise, and the summary is
\* "Step {n} ({action}): {description}. Insights: {insights joined by '; '}"
\* for every insights list, the empty one included.
C21_SummaryAlwaysWithInsights ==
    [][C21_ArchivesOne(LAMBDA step :
          C21_SummaryHead(step) \o "Insights: " \o Join(step.insights, "; "))]_vars

\* C21 amended: as above, but the "Insights: ..." part is present only when
\* the evicted step has insights; without insights the summary ends after
\* "{description}. ".
C21_SummaryInsightsIfAny ==
    [][C21_ArchivesOne(LAMBDA step :
          IF step.insights = <<>> THEN C21_SummaryHead(step)
          ELSE C21_SummaryHead(step) \o "Insights: " \o Join(step.insights, "; "))]_vars

\* C21 witness: a step without insights and a step with insights were both
\* archived.
C21_Witness ==
    /\ op = "add_step"
    /\ InList("Step 1 (statistics): Test step. ", archived_summary)
    /\ InList("Step 2 (cleaning): Test step. Insights: i1; i2", archived_summary)

\* the up to 3 last elements of a list, oldest first
C22_Last3(s) ==
    LET n == IF Len(s) < 3 THEN Len(s) ELSE 3
    IN  [i \in 1..n |-> s[Len(s) - n + i]]

\* the insights of the recent steps, step after step
C22_Pooled ==
    LET RECURSIVE pool(_)
        pool(k) == IF k = 0 THEN <<>> ELSE pool(k - 1) \o history[k].insights
    IN  pool(Len(history))

\* a recent step with at most its first insight
C22_Rendered(step) ==
    IF step.insights = <<>> THEN step.action \o ": " \o step.description
    ELSE step.action \o ": " \o step.description
         \o " (Found: " \o step.insights[1] \o ")"

\* the three sections, each empty when its source is
C22_Sections ==
    <<IF archived_summary = <<>> THEN ""
      ELSE "Previous analysis (" \o ToString(Len(archived_summary))
           \o " steps completed): " \o Join(C22_Last3(archived_summary), " â+' "),
      IF history = <<>> THEN ""
      ELSE "Recent: "
           \o Join([i \in 1..Len(C22_Last3(history)) |->
                       C22_Rendered(C22_Last3(history)[i])], " â+' "),
      IF C22_Pooled = <<>> THEN ""
      ELSE "Key findings: " \o Join(C22_Last3(C22_Pooled), "; ")>>

\* C22: the context is the archived section (the 3 most recent summaries,
\* oldest first), the recent section (the 3 most recent steps, each with only
\* its first insight) and the key findings (the 3 most recent insights of the
\* recent steps), in this order, each present iff its source is non-empty; an
\* empty ledger yields the empty string.
C22_ContextSections ==
    op = "get_context_for_next_step" =>
        /\ ret = Join(SelectSeq(C22_Sections, LAMBDA section : section # ""), " | ")
        /\ archived_summary = <<>> /\ history = <<>> => ret = ""

\* C22 witness: the context of a ledger with an archived summary and more than
\* 3 recent steps holding more than 3 insights.
C22_Witness ==
    /\ op = "get_context_for_next_step"
    /\ archived_summary # <<>>
    /\ Len(history) > 3
    /\ Len(C22_Pooled) > 3
    /\ \E i \in 1..Len(history) : history[i].insights = <<>>

\* C22, further cases: more than 3 archived summaries; an empty ledger.
C22_WitnessManyArchived ==
    /\ op = "get_context_for_next_step"
    /\ Len(archived_summary) > 3
    /\ C22_Pooled = <<>>
    /\ history # <<>>
C22_WitnessEmpty ==
    /\ op = "get_context_for_next_step"
    /\ archived_summary = <<>>
    /\ history = <<>>
    /\ ret = ""

(***************************************************************************)
(* Further properties of the agent and the digest, checked under SpecAgent.*)
(***************************************************************************)
\* the beginnings of the suggestions due for one column of the digest, in the
\* order missing values, outliers, skewness, high cardinality
C23_ForColumn(item) ==
    (IF C10_MissingExpected(item)
     THEN <<"Investigate missing values in '" \o item.name \o "' (">> ELSE <<>>)
    \o (IF C10_OutlierExpected(item)
        THEN <<"Analyze potential outliers in '" \o item.name \o "'">> ELSE <<>>)
    \o (IF C10_SkewExpected(item)
        THEN <<"Examine distribution skewness in '" \o item.name \o "'">> ELSE <<>>)
    \o (IF C10_CardinalityExpected(item)
        THEN <<"Analyze high cardinality in '" \o item.name \o "' (">> ELSE <<>>)

\* the generation sequence: the columns in table order, then the correlation
\* suggestion
C23_Generation ==
    LET RECURSIVE upto(_)
        upto(k) == IF k = 0 THEN <<>>
                   ELSE upto(k - 1) \o C23_ForColumn(compressed_schema.columns[k])
    IN  upto(Len(compressed_schema.columns))
        \o (IF C11_NumericCount >= 2
            THEN <<"Explore correlations between numeric features">> ELSE <<>>)

\* C23: with current_step > 0, suggest_next_steps returns the first 5 elements
\* (all, if fewer) of the generation sequence, which visits the columns in
\* table order, gives for each column its suggestions in the order missing
\* values, outliers, skewness, high cardinality, and ends with the correlation
\* suggestion.
C23_FirstFiveGenerated ==
    op = "suggest_next_steps" /\ current_step > 0 =>
        /\ Len(ret) = IF Len(C23_Generation) < 5 THEN Len(C23_Generation) ELSE 5
        /\ \A i \in 1..Len(ret) :
              /\ Len(ret[i]) >= Len(C23_Generation[i])
              /\ SubSeq(ret[i], 1, Len(C23_Generation[i])) = C23_Generation[i]

\* C23 witness: suggestions returned for a digest that generates more than 5,
\* with several suggestions for one column.
C23_Witness ==
    /\ op = "suggest_next_steps"
    /\ current_step > 0
    /\ Len(C23_Generation) > 5
    /\ Len(C23_ForColumn(compressed_schema.columns[1])) >= 3
    /\ Len(ret) = 5

(***************************************************************************)
(* Properties of the digest of a text column, checked under SpecDigest.    *)
(***************************************************************************)
\* the distinct non-null values of column k of the table
C24_Values(k) ==
    {df[k].cells[j][1] : j \in {i \in 1..Len(df[k].cells) : df[k].cells[i] # <<>>}}

C24_UniqueCount(u) ==
    /\ Len(compressed_schema.columns) = 1
    /\ compressed_schema.columns[1].info.type = "categorical"
    /\ compressed_schema.columns[1].info.unique_count = u

C24_WitnessFifty ==
    C24_UniqueCount(50) /\ compressed_schema.columns[1].info.cardinality = "medium"
C24_WitnessEleven ==
    C24_UniqueCount(11) /\ compressed_schema.columns[1].info.cardinality = "medium"
C24_WitnessTen ==
    C24_UniqueCount(10) /\ compressed_schema.columns[1].info.cardinality = "low"
C24_WitnessSix ==
    C24_UniqueCount(6) /\ "sample_values" \in DOMAIN compressed_schema.columns[1].info
C24_WitnessFive ==
    C24_UniqueCount(5) /\ "top_values" \in DOMAIN compressed_schema.columns[1].info

(***************************************************************************)
(* Further properties of the analyses, checked under SpecAgent.            *)
(***************************************************************************)
\* the last call was analyze_distributions and it returned a result
C25_Returned == op = "analyze_distributions" /\ "exception" \notin DOMAIN ret

\* the entries of the result are those of the analysed columns, in order, each
\* classified right-skewed iff skew > 1, left-skewed iff skew < -1, else normal
C25_Classified ==
    LET analysed == Analysed(ResolveColumns(args[1], compressed_schema), df)
    IN  /\ Len(ret.distributions) = Len(analysed)
        /\ \A i \in 1..Len(analysed) :
              LET d == ret.distributions[i]
                  skew == Skewness(DropNA(Column(df, analysed[i]).cells))
              IN  /\ d.name = analysed[i]
                  /\ d.skewness = skew
                  /\ d.distribution_type = "right-skewed" <=> (AbsGT(skew, 1) /\ ~skew.neg)
                  /\ d.distribution_type = "left-skewed" <=> (AbsGT(skew, 1) /\ skew.neg)
                  /\ d.distribution_type = "normal" <=> ~AbsGT(skew, 1)

\* one insight for each entry of the result with |skew| > 1, in order
C25_SkewInsights ==
    LET skewed == SelectSeq(ret.distributions, LAMBDA d : d.distribution_type # "normal")
    IN  [i \in 1..Len(skewed) |->
            "'" \o skewed[i].name \o "' is " \o skewed[i].distribution_type
            \o " (skew=" \o FormatRoot2(skewed[i].skewness.neg, skewed[i].skewness.sq)
            \o ")"]

\* C25 as claimed: the insights of the result of analyze_distributions hold one
\* insight for each analysed column with |skew| > 1 and nothing else when a column
\* is skewed, and exactly one placeholder insight when none is; a column is
\* right-skewed iff skew > 1, left-skewed iff skew < -1, normal otherwise.
C25_ResultInsights ==
    C25_Returned =>
        /\ C25_Classified
        /\ ret.insights = IF C25_SkewInsights # <<>> THEN C25_SkewInsights
                          ELSE <<"All distributions appear relatively normal">>

\* C25, the part that holds: the classification, the insights of the result
\* being exactly those of the skewed columns (none when no column is skewed), and
\* the recorded step carrying them, or the placeholder when there are none.
C25_StepInsights ==
    C25_Returned =>
        /\ C25_Classified
        /\ ret.insights = C25_SkewInsights
        /\ history # <<>>
        /\ history[Len(history)].action = "distribution_analysis"
        /\ history[Len(history)].insights =
              IF C25_SkewInsights # <<>> THEN C25_SkewInsights
              ELSE <<"All distributions appear relatively normal">>

\* C25: analyze_distributions returned for columns with values none of which is
\* skewed, and its result has no insight.
C25_WitnessNoneSkewed ==
    /\ C25_Returned
    /\ ret.distributions # <<>>
    /\ ret.insights = <<>>
    /\ history[Len(history)].insights = <<"All distributions appear relatively normal">>

\* C25: analyze_distributions returned with a right-skewed and with a
\* left-skewed column.
C25_WitnessSkewed ==
    /\ C25_Returned
    /\ \E i \in 1..Len(ret.distributions) :
          ret.distributions[i].distribution_type = "right-skewed"
C25_WitnessLeftSkewed ==
    /\ C25_Returned
    /\ \E i \in 1..Len(ret.distributions) :
          ret.distributions[i].distribution_type = "left-skewed"

\* the last call was detect_outliers with method "zscore" and it returned a result
C26_Returned ==
    /\ op = "detect_outliers"
    /\ args[2] = "zscore"
    /\ "exception" \notin DOMAIN ret

\* the values x of xs with |x - mean| > 3 * std, the variance being the sum of
\* squared deviations over `divisor` (n for the population, n - 1 for the sample
\* standard deviation); in integers, with S the sum and SS the sum of squares,
\* (n*x - S)^2 * divisor > 9 * n * (n*SS - S^2); none when the divisor is 0
C26_Flagged(xs, divisor) ==
    LET n == Len(xs)
        S == SumSeq(xs)
        SS == SumSeq([i \in 1..n |-> xs[i] * xs[i]])
    IN  {i \in 1..n : /\ divisor > 0
                      /\ (n * xs[i] - S) * (n * xs[i] - S) * divisor
                             > 9 * n * (n * SS - S * S)}

\* the result counts, for every analysed column, the values flagged with the
\* given divisor, holds an entry and an insight for each column with at least
\* one, and a single 'none detected' insight when there is none
C26_ZScoreResult(Divisor(_)) ==
    LET analysed == Analysed(ResolveColumns(args[1], compressed_schema), df)
        counts == [i \in 1..Len(analysed) |->
                      LET xs == DropNA(Column(df, analysed[i]).cells)
                      IN  [name |-> analysed[i],
                           count |-> Cardinality(C26_Flagged(xs, Divisor(Len(xs)))),
                           ratio |-> Rat(Cardinality(C26_Flagged(xs, Divisor(Len(xs)))),
                                         Len(xs))]]
        flagged == SelectSeq(counts, LAMBDA c : c.count > 0)
    IN  /\ ret.outliers = flagged
        /\ ret.insights =
              IF flagged = <<>> THEN <<"No significant outliers detected">>
              ELSE [i \in 1..Len(flagged) |->
                       "'" \o flagged[i].name \o "' has " \o ToString(flagged[i].count)
                       \o " outliers (" \o FormatPercent(flagged[i].ratio) \o ")"]

\* C26 as claimed: detect_outliers with method 'zscore' flags exactly the non-null
\* values x of a column with |x - mean| > 3 * std, mean and std being the
\* population mean and population standard deviation (divisor n); one insight per
\* column with a flagged value, a single 'none detected' insight when there is none.
C26_PopulationZScore ==
    C26_Returned => C26_ZScoreResult(LAMBDA n : n)

\* C26, amended: the same with the sample standard deviation (divisor n - 1); a
\* column with one non-null value has no standard deviation and nothing flagged.
C26_SampleZScore ==
    C26_Returned => C26_ZScoreResult(LAMBDA n : n - 1)

\* C26 witness: a z-score detection that flagged a value (the 1 among ten 0s).
C26_Witness ==
    /\ C26_Returned
    /\ ret.outliers # <<>>
    /\ ret.outliers[1].count = 1

\* C26, further case: a z-score detection on the column whose largest value is
\* exactly 3 sample standard deviations from the mean; nothing is flagged.
C26_WitnessAtThree ==
    /\ C26_Returned
    /\ df = NearSpikeTable
    /\ args[1] = <<>>
    /\ ret.outliers = <<>>
    /\ ret.insights = <<"No significant outliers detected">>

\* the digest entry of column k: missing_count counts the nulls of the column
\* and lies between 0 and the row count
C27_MissingCount(k) ==
    LET info == compressed_schema.columns[k].info
    IN  /\ info.missing_count = Cardinality({j \in 1..Len(df[k].cells) : df[k].cells[j] = NA})
        /\ 0 <= info.missing_count
        /\ info.missing_count <= compressed_schema.shape.rows

\* the digest entry of column k: missing_ratio is a number in [0,1] equal to
\* missing_count over the row count
C27_RatioDefined(k) ==
    LET info == compressed_schema.columns[k].info
    IN  /\ ~IsNaN(info.missing_ratio)
        /\ info.missing_ratio.d > 0
        /\ 0 <= info.missing_ratio.n
        /\ info.missing_ratio.n <= info.missing_ratio.d
        /\ info.missing_ratio.n * compressed_schema.shape.rows
              = info.missing_count * info.missing_ratio.d

\* C27 as claimed: for every column of every table, tables with zero rows
\* included, missing_ratio is a defined number in [0,1] equal to missing_count
\* divided by the row count, and missing_count is between 0 and the row count.
C27_MissingRatioDefined ==
    \A k \in 1..Len(compressed_schema.columns) :
        C27_MissingCount(k) /\ C27_RatioDefined(k)

\* C27, the part that holds: the same for every table with at least one row; for
\* a table with columns and no rows missing_count is 0 and missing_ratio is NaN.
C27_MissingRatioWithRows ==
    \A k \in 1..Len(compressed_schema.columns) :
        /\ C27_MissingCount(k)
        /\ IF compressed_schema.shape.rows > 0 THEN C27_RatioDefined(k)
           ELSE IsNaN(compressed_schema.columns[k].info.missing_ratio)

\* C27: the schema text of a table with columns and no rows, and of a table
\* with a column whose missing ratio is strictly between 0 and 1.
C27_WitnessNoRows ==
    /\ op = "get_schema_context"
    /\ compressed_schema.shape.rows = 0
    /\ compressed_schema.columns # <<>>
C27_WitnessPartlyMissing ==
    /\ op = "get_schema_context"
    /\ \E k \in 1..Len(compressed_schema.columns) :
          /\ C27_RatioDefined(k)
          /\ 0 < compressed_schema.columns[k].info.missing_count
          /\ compressed_schema.columns[k].info.missing_count < compressed_schema.shape.rows

(***************************************************************************)
(* Properties of the ledger's read operations, checked under SpecReads.    *)
(***************************************************************************)
C28_ReadOps ==
    {"get_context_for_next_step", "to_text", "get_compressed_history",
     "export_full_history", "estimate_token_savings"}

\* C28: steps are never mutated once recorded: the read operations of the ledger
\* leave the recent steps, every field of every stored step and the archived
\* summaries unchanged, and add_step changes no field of a previously recorded
\* step (the steps before the new one are the former ones, less the evicted one,
\* and the former summaries are kept).
C28_StepsNeverMutated ==
    [][/\ op' \in C28_ReadOps =>
             /\ history' = history
             /\ archived_summary' = archived_summary
             /\ log' = log
       /\ op' = "add_step" =>
             /\ SubSeq(history', 1, Len(history') - 1) \in
                   {history, IF history = <<>> THEN <<>> ELSE Tail(history)}
             /\ SubSeq(archived_summary', 1, Len(archived_summary)) = archived_summary
             /\ SubSeq(log', 1, Len(log)) = log]_vars

\* C28 witness: the history was exported from a ledger holding recent steps with
\* insights and archived summaries.
C28_Witness ==
    /\ op = "export_full_history"
    /\ archived_summary # <<>>
    /\ Len(history) >= 2
    /\ history[1].insights # <<>>
    /\ ret.recent_steps[1].insights = history[1].insights

\* C28, further cases: each of the other read operations on such a ledger.
C28_WitnessReads ==
    /\ op \in C28_ReadOps \ {"export_full_history"}
    /\ archived_summary # <<>>
    /\ Len(history) >= 2

\* C29: after n add_step calls on a fresh ledger of capacity c >= 1 the recent
\* window holds exactly the last min(n, c) steps added, in insertion order, and
\* the archived list holds the summaries of exactly the first max(0, n - c)
\* steps, so every step added is represented exactly once, and total_steps of
\* get_compressed_history equals n.
C29_EveryStepOnce ==
    LET n == Len(log)
        c == max_steps_to_keep
        kept == Min(n, c)
        evicted == Max(0, n - c)
    IN  clears = 0 =>
            /\ Len(history) = kept
            /\ \A i \in 1..kept : history[i] = log[evicted + i]
            /\ Len(archived_summary) = evicted
            /\ \A i \in 1..evicted : archived_summary[i] = Summary(log[i])
            /\ kept + evicted = n
            /\ op = "get_compressed_history" =>
                  /\ ret.total_steps = n
                  /\ ret.archived_count = evicted
                  /\ ret.archived_summary = archived_summary
                  /\ Len(ret.recent_steps) = kept
                  /\ \A i \in 1..kept :
                        /\ ret.recent_steps[i].action = log[evicted + i].action
                        /\ ret.recent_steps[i].insights = log[evicted + i].insights
                        /\ ret.recent_steps[i].step_number = log[evicted + i].step_number

\* C29 witness: get_compressed_history on a fresh ledger of capacity 2 after
\* three add_step calls: one archived summary, two recent steps, total 3.
C29_Witness ==
    /\ op = "get_compressed_history"
    /\ clears = 0
    /\ max_steps_to_keep = 2
    /\ Len(log) = 3
    /\ ret.total_steps = 3
    /\ ret.archived_count = 1

\* C29, further case: fewer calls than the capacity, nothing archived.
C29_WitnessBelowCapacity ==
    /\ op = "get_compressed_history"
    /\ clears = 0
    /\ Len(log) = 2
    /\ max_steps_to_keep > 2
    /\ ret.total_steps = 2
    /\ ret.archived_count = 0

(***************************************************************************)
(* The automated sequence, checked under SpecApp.                          *)
(***************************************************************************)
\* the actions run_automated_eda records on the digest at hand
C30_ExpectedActions ==
    <<"missing_value_analysis", "distribution_analysis">>
    \o (IF C11_NumericCount >= 2 THEN <<"correlation_analysis">> ELSE <<>>)
    \o <<"outlier_detection">>

\* C30: run_automated_eda on a fresh agent performs the analyses in the order
\* missing values, distributions, correlations, outliers and only then generates
\* the report: the recorded actions appear in that order (the correlation step
\* only when the digest has at least 2 numeric columns), current_step ends at the
\* number of recorded steps, and the report, built with current_step > 0, includes
\* the history compression line.
C30_FixedOrder ==
    [][(op' = "run_automated_eda" /\ log = <<>> /\ current_step = 0) =>
          /\ "exception" \notin DOMAIN ret'
          /\ [i \in 1..Len(log') |-> log'[i].action] = C30_ExpectedActions
          /\ history' = log'
          /\ archived_summary' = <<>>
          /\ current_step' = Len(log')
          /\ current_step' > 0
          /\ C18_Find(ret'.summary_report, "\nHistory Compression: ") > 0
          /\ ret'.summary_report =
                SummaryReport(df, compressed_schema, history', archived_summary',
                              current_step')
          /\ ret'.analyses.missing_values.insights = log'[1].insights
          /\ ret'.analyses.outliers.insights = log'[Len(log')].insights]_vars

\* C30 witness: the sequence has run on a fresh agent whose digest has at least
\* 2 numeric columns and recorded four steps.
C30_Witness ==
    /\ op = "run_automated_eda"
    /\ C11_NumericCount >= 2
    /\ Len(log) = 4
    /\ current_step = 4
    /\ log[3].action = "correlation_analysis"

\* C30, further case: fewer than 2 numeric columns, three steps recorded.
C30_WitnessNoCorrelation ==
    /\ op = "run_automated_eda"
    /\ C11_NumericCount < 2
    /\ Len(log) = 3
    /\ current_step = 3
    /\ ret.analyses.correlations = NotEnoughResult


=============================================================================
